---- MODULE Spec2Model ----
(***************************************************************************)
(* Bracket engine (src/lib/bracket.ts) and the vote / state handlers of    *)
(* the tournament API (functions/api/[[path]].ts and the legacy Fastify    *)
(* server, whose vote and state handlers are line-for-line the same).      *)
(*                                                                         *)
(* The persisted state of one tournament is the tournaments row (status)   *)
(* and the tournament_bracket_state row (tracksJson, winnersJson,          *)
(* completedAt).  winnersJson is one JSON object, a map from the string    *)
(* key "r<round>m<match>" to the winning track id.                         *)
(*                                                                         *)
(* The lifecycle handlers (login, auth callback, create, settings, start)  *)
(* follow the bracket engine; the settings handler is modelled for both    *)
(* servers, which differ in it.                                            *)
(***************************************************************************)
EXTENDS Integers, Sequences, FiniteSets, TLC

VARIABLES
    tracks,       \* tournament_bracket_state.tracksJson : sequence of track ids
    winners,      \* tournament_bracket_state.winnersJson : key -> track id
    completedAt,  \* tournament_bracket_state.completedAt : TRUE = a date, FALSE = null
    status,       \* tournaments.status
    reply,        \* the response to the last request served to completion
    h,            \* the vote handlers in flight: their locals and position
    tournament,   \* the other columns of the tournaments row
    bracketRow,   \* TRUE when the tournament_bracket_state row exists
    oauth,        \* oauth_states: the pending logins for the tournament, by role
    tournamentTracks,  \* tournament_tracks: the rows, as [trackId, ownerUserId]
    spotify       \* the track ids Spotify lists for the host and for the challenger

vars == <<tracks, winners, completedAt, status, reply, h, tournament, bracketRow, oauth,
          tournamentTracks, spotify>>

-----------------------------------------------------------------------------
(* Bounds and program constants *)

\* The smallest bracket a start can materialize (bracketSize < 8 is refused).
MinBracketSize == 8

\* How far past the last valid round index a vote request may point.
Overshoot == 1

\* For how many round-0 matches a vote request may name the second entrant
\* (it may name the first entrant of every round-0 match).
NumSecondEntrants == 1

\* Concurrent vote handlers (the two participants of a duel).
NumProcs == 2

\* How many of the leading slots supply the values of an arbitrary winners map.
NumPureIds == 2

\* The largest bracket a tournament may ask for (bracketSize <= 64).
MaxBracketSize == 64

\* How far below 0 and above MaxBracketSize the size of a direct call ranges.
SizeMargin == 2

\* How many challenger logins may be pending at once.
MaxChallengerLogins == 2

-----------------------------------------------------------------------------
(* Values *)

\* JavaScript undefined / a missing property; every track id is a non-empty
\* string (z.string().min(1), and fetchPlaylistTracks skips tracks without id).
Undefined == ""

\* JavaScript null, as the result of a function that otherwise returns a record.
Null == <<>>

Truthy(v) == v # Undefined

TrackNames == <<"a", "b", "c", "d", "e", "f", "g", "h">>

\* A track id that is in no slot of the bracket.
Outsider == "x"

\* The slot list a start persisted: MinBracketSize pairwise distinct ids.
SlotList == [i \in 1..MinBracketSize |-> TrackNames[i]]

EmptyMap == [k \in {} |-> Undefined]

\* winners[key] of a JavaScript object: undefined when the key is absent.
Lookup(w, k) == IF k \in DOMAIN w THEN w[k] ELSE Undefined

\* winners[key] = value
Put(w, k, v) == [x \in (DOMAIN w) \cup {k} |-> IF x = k THEN v ELSE w[x]]

\* tracks[i] of a JavaScript array (0-based): undefined out of range.
At(t, i) == IF i >= 0 /\ i < Len(t) THEN t[i + 1] ELSE Undefined

-----------------------------------------------------------------------------
(* src/lib/bracket.ts *)

RECURSIVE Pow2(_)
Pow2(n) == IF n <= 0 THEN 1 ELSE 2 * Pow2(n - 1)

RECURSIVE Log2(_)
Log2(n) == IF n <= 1 THEN 0 ELSE 1 + Log2(n \div 2)

\* Variant: without the test (n & (n - 1)) === 0.
isPowerOfTwo_Positive(n) == n > 0

\* Number.isInteger(n) && n > 0 && (n & (n - 1)) === 0, for an integer n.
isPowerOfTwo(n) == n > 0 /\ Pow2(Log2(n)) = n

\* Throws for a size that is no power of two; the thrown error is modelled
\* as the result -1, which no caller mistakes for a round count.
totalRounds(size) == IF isPowerOfTwo(size) THEN Log2(size) ELSE 0 - 1

matchKey(round, match) == "r" \o ToString(round) \o "m" \o ToString(match)

\* Variant: size / 2 ** round.
matchCount_NoPlusOne(size, round) == size \div Pow2(round)

\* size / 2 ** (round + 1); exact for every round < totalRounds(size).
matchCount(size, round) == size \div Pow2(round + 1)

\* Variant: only the first feeder match is tested before the pair is returned.
resolveMatchParticipants_OneFeeder(size, t, w, round, match) ==
    IF Len(t) # size THEN Null
    ELSE IF round < 0 THEN Null
    ELSE IF round = 0 THEN
        LET a == At(t, match * 2)
            b == At(t, match * 2 + 1)
        IN  IF ~Truthy(a) \/ ~Truthy(b) THEN Null ELSE <<a, b>>
    ELSE
        LET prevRound == round - 1
            prevA == Lookup(w, matchKey(prevRound, match * 2))
            prevB == Lookup(w, matchKey(prevRound, match * 2 + 1))
        IN  IF ~Truthy(prevA) THEN Null ELSE <<prevA, prevB>>

\* Variant: round 0 pairs slot m with slot m + 1 instead of 2m with 2m + 1.
resolveMatchParticipants_Adjacent(size, t, w, round, match) ==
    IF Len(t) # size THEN Null
    ELSE IF round < 0 THEN Null
    ELSE IF round = 0 THEN
        LET a == At(t, match)
            b == At(t, match + 1)
        IN  IF ~Truthy(a) \/ ~Truthy(b) THEN Null ELSE <<a, b>>
    ELSE
        LET prevRound == round - 1
            prevA == Lookup(w, matchKey(prevRound, match * 2))
            prevB == Lookup(w, matchKey(prevRound, match * 2 + 1))
        IN  IF ~Truthy(prevA) \/ ~Truthy(prevB) THEN Null ELSE <<prevA, prevB>>

\* Variant: every match of a later round is fed by matches 0 and 1 of the
\* round before.
resolveMatchParticipants_FirstFeeders(size, t, w, round, match) ==
    IF Len(t) # size THEN Null
    ELSE IF round < 0 THEN Null
    ELSE IF round = 0 THEN
        LET a == At(t, match * 2)
            b == At(t, match * 2 + 1)
        IN  IF ~Truthy(a) \/ ~Truthy(b) THEN Null ELSE <<a, b>>
    ELSE
        LET prevRound == round - 1
            prevA == Lookup(w, matchKey(prevRound, 0))
            prevB == Lookup(w, matchKey(prevRound, 1))
        IN  IF ~Truthy(prevA) \/ ~Truthy(prevB) THEN Null ELSE <<prevA, prevB>>

resolveMatchParticipants(size, t, w, round, match) ==
    IF Len(t) # size THEN Null
    ELSE IF round < 0 THEN Null
    ELSE IF round = 0 THEN
        LET a == At(t, match * 2)
            b == At(t, match * 2 + 1)
        IN  IF ~Truthy(a) \/ ~Truthy(b) THEN Null ELSE <<a, b>>
    ELSE
        LET prevRound == round - 1
            prevA == Lookup(w, matchKey(prevRound, match * 2))
            prevB == Lookup(w, matchKey(prevRound, match * 2 + 1))
        IN  IF ~Truthy(prevA) \/ ~Truthy(prevB) THEN Null ELSE <<prevA, prevB>>

MatchRef(r, m, p) == [round |-> r, match |-> m, a |-> p[1], b |-> p[2]]

\* The two nested for loops of nextOpenMatch, from position (r, m) on.
RECURSIVE nextOpenFrom(_, _, _, _, _)
nextOpenFrom(size, t, w, r, m) ==
    IF r >= totalRounds(size) THEN Null
    ELSE IF m >= matchCount(size, r) THEN nextOpenFrom(size, t, w, r + 1, 0)
    ELSE IF Truthy(Lookup(w, matchKey(r, m))) THEN nextOpenFrom(size, t, w, r, m + 1)
    ELSE LET participants == resolveMatchParticipants(size, t, w, r, m)
         IN  IF participants = Null THEN nextOpenFrom(size, t, w, r, m + 1)
             ELSE <<MatchRef(r, m, participants)>>

\* Variant: the scan without `if (winners[k]) continue`.
RECURSIVE nextOpenFrom_NoSkip(_, _, _, _, _)
nextOpenFrom_NoSkip(size, t, w, r, m) ==
    IF r >= totalRounds(size) THEN Null
    ELSE IF m >= matchCount(size, r) THEN nextOpenFrom_NoSkip(size, t, w, r + 1, 0)
    ELSE LET participants == resolveMatchParticipants(size, t, w, r, m)
         IN  IF participants = Null THEN nextOpenFrom_NoSkip(size, t, w, r, m + 1)
             ELSE <<MatchRef(r, m, participants)>>

nextOpenMatch_NoSkip(size, t, w) == nextOpenFrom_NoSkip(size, t, w, 0, 0)

\* Variant: the outer loop runs while r < rounds - 1 and never visits the final.
RECURSIVE nextOpenFrom_ShortLoop(_, _, _, _, _)
nextOpenFrom_ShortLoop(size, t, w, r, m) ==
    IF r >= totalRounds(size) - 1 THEN Null
    ELSE IF m >= matchCount(size, r) THEN nextOpenFrom_ShortLoop(size, t, w, r + 1, 0)
    ELSE IF Truthy(Lookup(w, matchKey(r, m))) THEN nextOpenFrom_ShortLoop(size, t, w, r, m + 1)
    ELSE LET participants == resolveMatchParticipants(size, t, w, r, m)
         IN  IF participants = Null THEN nextOpenFrom_ShortLoop(size, t, w, r, m + 1)
             ELSE <<MatchRef(r, m, participants)>>

nextOpenMatch_ShortLoop(size, t, w) == nextOpenFrom_ShortLoop(size, t, w, 0, 0)

\* Null, or a one-element sequence holding the MatchRef.
nextOpenMatch(size, t, w) == nextOpenFrom(size, t, w, 0, 0)

\* Variant: the final is looked up in round `rounds`, one past the last.
bracketWinner_OffByOne(size, w) ==
    LET rounds == totalRounds(size)
        winner == Lookup(w, matchKey(rounds, 0))
    IN  IF ~Truthy(winner) THEN Undefined ELSE winner

\* winners[finalKey] ?? null; null is rendered as Undefined (both are falsy and
\* neither is a track id).
bracketWinner(size, w) ==
    LET rounds == totalRounds(size)
        winner == Lookup(w, matchKey(rounds - 1, 0))
    IN  IF ~Truthy(winner) THEN Undefined ELSE winner

\* loserByRound and runnerUp before the first match is visited.
NoLosers(rounds) ==
    [runnerUp |-> Undefined, loserByRound |-> [r \in 1..rounds |-> <<>>]]

\* The two nested for loops of computeRanking, from position (r, m) on with the
\* losers collected so far: Null where the code returns null, else a
\* one-element sequence holding runnerUp and loserByRound.
RECURSIVE rankingLoop(_, _, _, _, _, _)
rankingLoop(size, t, w, r, m, acc) ==
    LET rounds == totalRounds(size)
    IN  IF r >= rounds THEN <<acc>>
        ELSE IF m >= matchCount(size, r) THEN rankingLoop(size, t, w, r + 1, 0, acc)
        ELSE LET participants == resolveMatchParticipants(size, t, w, r, m)
                 win == Lookup(w, matchKey(r, m))
             IN  IF participants = Null THEN Null
                 ELSE IF ~Truthy(win) THEN Null
                 ELSE LET lose == IF win = participants[1] THEN participants[2]
                                  ELSE participants[1]
                      IN  rankingLoop(size, t, w, r, m + 1,
                              IF r = rounds - 1
                              THEN [acc EXCEPT !.runnerUp = lose]
                              ELSE [acc EXCEPT !.loserByRound[r + 1] = Append(@, lose)])

\* for (let r = from; r >= 0; r--) ranking.push(...loserByRound[r])
RECURSIVE rankingTail(_, _)
rankingTail(loserByRound, r) ==
    IF r < 0 THEN <<>> ELSE loserByRound[r + 1] \o rankingTail(loserByRound, r - 1)

\* Variant of rankingTail: the rounds from r upward to the round before the final.
RECURSIVE rankingTailUp(_, _)
rankingTailUp(loserByRound, r) ==
    IF r >= Len(loserByRound) - 1 THEN <<>>
    ELSE loserByRound[r + 1] \o rankingTailUp(loserByRound, r + 1)

\* Variant: the closing loop starts at rounds - 3 and leaves out the losers of
\* the round before the final.
computeRanking_SkipSemifinal(size, t, w) ==
    LET rounds == totalRounds(size)
        finalWinner == bracketWinner(size, w)
        collected == rankingLoop(size, t, w, 0, 0, NoLosers(rounds))
    IN  IF ~Truthy(finalWinner) THEN Null
        ELSE IF collected = Null THEN Null
        ELSE IF ~Truthy(collected[1].runnerUp) THEN Null
        ELSE <<finalWinner, collected[1].runnerUp>>
                 \o rankingTail(collected[1].loserByRound, rounds - 3)

\* Variant: the closing loop runs from round 0 upward.
computeRanking_Ascending(size, t, w) ==
    LET rounds == totalRounds(size)
        finalWinner == bracketWinner(size, w)
        collected == rankingLoop(size, t, w, 0, 0, NoLosers(rounds))
    IN  IF ~Truthy(finalWinner) THEN Null
        ELSE IF collected = Null THEN Null
        ELSE IF ~Truthy(collected[1].runnerUp) THEN Null
        ELSE <<finalWinner, collected[1].runnerUp>>
                 \o rankingTailUp(collected[1].loserByRound, 0)

\* Null, or the ranking: a sequence of at least two track ids.
computeRanking(size, t, w) ==
    LET rounds == totalRounds(size)
        finalWinner == bracketWinner(size, w)
        collected == rankingLoop(size, t, w, 0, 0, NoLosers(rounds))
    IN  IF ~Truthy(finalWinner) THEN Null
        ELSE IF collected = Null THEN Null
        ELSE IF ~Truthy(collected[1].runnerUp) THEN Null
        ELSE <<finalWinner, collected[1].runnerUp>>
                 \o rankingTail(collected[1].loserByRound, rounds - 2)

\* What a call yields: the value it returns, or the error it throws.
Returned(v) == [threw |-> FALSE, value |-> <<v>>]

Thrown == [threw |-> TRUE, value |-> <<"Bracket size must be power of two">>]

totalRoundsCall(size) ==
    IF ~isPowerOfTwo(size) THEN Thrown ELSE Returned(totalRounds(size))

\* nextOpenMatch, bracketWinner and computeRanking call totalRounds(size) in
\* their first statement and catch nothing: its error is theirs.
nextOpenMatchCall(size, t, w) ==
    IF totalRoundsCall(size).threw THEN Thrown ELSE Returned(nextOpenMatch(size, t, w))

bracketWinnerCall(size, w) ==
    IF totalRoundsCall(size).threw THEN Thrown ELSE Returned(bracketWinner(size, w))

computeRankingCall(size, t, w) ==
    IF totalRoundsCall(size).threw THEN Thrown ELSE Returned(computeRanking(size, t, w))

-----------------------------------------------------------------------------
(* POST /tournaments/:id/vote *)

\* Variant: the handler without `if (winners[key]) return match_already_voted`.
voteChecks_NoDecidedCheck(t, w, round, match, winnerTrackId) ==
    LET size == Len(t)
        rounds == totalRounds(size)
        matches == size \div Pow2(round + 1)
        participants == resolveMatchParticipants(size, t, w, round, match)
    IN  IF round >= rounds THEN "invalid_round"
        ELSE IF match >= matches THEN "invalid_match"
        ELSE IF participants = Null THEN "match_not_ready"
        ELSE IF winnerTrackId # participants[1] /\ winnerTrackId # participants[2]
             THEN "winner_not_in_match"
        ELSE "ok"

\* Variant: the winner is tested against the slot list, not the two participants.
voteChecks_AnyTrack(t, w, round, match, winnerTrackId) ==
    LET size == Len(t)
        rounds == totalRounds(size)
        matches == size \div Pow2(round + 1)
        key == matchKey(round, match)
        participants == resolveMatchParticipants(size, t, w, round, match)
    IN  IF round >= rounds THEN "invalid_round"
        ELSE IF match >= matches THEN "invalid_match"
        ELSE IF Truthy(Lookup(w, key)) THEN "match_already_voted"
        ELSE IF participants = Null THEN "match_not_ready"
        ELSE IF \A i \in 1..Len(t) : t[i] # winnerTrackId
             THEN "winner_not_in_match"
        ELSE "ok"

\* Variant: the handler without the winner_not_in_match test.
voteChecks_NoWinnerCheck(t, w, round, match, winnerTrackId) ==
    LET size == Len(t)
        rounds == totalRounds(size)
        matches == size \div Pow2(round + 1)
        key == matchKey(round, match)
        participants == resolveMatchParticipants(size, t, w, round, match)
    IN  IF round >= rounds THEN "invalid_round"
        ELSE IF match >= matches THEN "invalid_match"
        ELSE IF Truthy(Lookup(w, key)) THEN "match_already_voted"
        ELSE IF participants = Null THEN "match_not_ready"
        ELSE "ok"

\* Variant: the match index is tested with `>` where the handler has `>=`.
voteChecks_MatchOffByOne(t, w, round, match, winnerTrackId) ==
    LET size == Len(t)
        rounds == totalRounds(size)
        matches == size \div Pow2(round + 1)
        key == matchKey(round, match)
        participants == resolveMatchParticipants(size, t, w, round, match)
    IN  IF round >= rounds THEN "invalid_round"
        ELSE IF match > matches THEN "invalid_match"
        ELSE IF Truthy(Lookup(w, key)) THEN "match_already_voted"
        ELSE IF participants = Null THEN "match_not_ready"
        ELSE IF winnerTrackId # participants[1] /\ winnerTrackId # participants[2]
             THEN "winner_not_in_match"
        ELSE "ok"

\* The synchronous part of the vote handler, from the parsed bracket row to
\* the mutation of the winners object: the error it answers, or "ok".
voteChecks(t, w, round, match, winnerTrackId) ==
    LET size == Len(t)
        rounds == totalRounds(size)
        matches == size \div Pow2(round + 1)
        key == matchKey(round, match)
        participants == resolveMatchParticipants(size, t, w, round, match)
    IN  IF round >= rounds THEN "invalid_round"
        ELSE IF match >= matches THEN "invalid_match"
        ELSE IF Truthy(Lookup(w, key)) THEN "match_already_voted"
        ELSE IF participants = Null THEN "match_not_ready"
        ELSE IF winnerTrackId # participants[1] /\ winnerTrackId # participants[2]
             THEN "winner_not_in_match"
        ELSE "ok"

\* The write that also clears the entry of the match after this one in the
\* same round.
voteWinners_ClearsNeighbour(w, round, match, winnerTrackId) ==
    LET kept == (DOMAIN w) \ {matchKey(round, match + 1)}
    IN  Put([k \in kept |-> w[k]], matchKey(round, match), winnerTrackId)

\* winners[key] = body.winnerTrackId, on the handler's own copy of the map.
voteWinners(w, round, match, winnerTrackId) ==
    Put(w, matchKey(round, match), winnerTrackId)

\* The champion read from match 0 of the round before the last.
voteFinalWinner_Semifinal(t, w) == Lookup(w, matchKey(totalRounds(Len(t)) - 2, 0))

\* winners[finalKey] ?? null, read from the handler's own copy of the map.
voteFinalWinner(t, w) == Lookup(w, matchKey(totalRounds(Len(t)) - 1, 0))

VoteReply(round, match, winnerTrackId, result, finalWinner) ==
    [op |-> "vote", round |-> round, match |-> match,
     winnerTrackId |-> winnerTrackId, result |-> result,
     finalWinner |-> finalWinner]

\* What a vote request carries: non-negative indices and a non-empty id.
RoundArgs == 0..(totalRounds(MinBracketSize) - 1 + Overshoot)

\* Every match index of round 0; all but the first are out of range for the
\* last round, all but the first two for the round before it.
MatchArgs == 0..(matchCount(MinBracketSize, 0) - 1)

\* The first entrant of every round-0 match: enough to decide every match.
FirstEntrants == {TrackNames[2 * m + 1] : m \in 0..(matchCount(MinBracketSize, 0) - 1)}

SecondEntrants == {TrackNames[2 * m] : m \in 1..NumSecondEntrants}

IdArgs == FirstEntrants \cup SecondEntrants \cup {Outsider}

\* One vote request served from its read to its response with no other
\* request in between.
\* The handler writing the slot list back with the voted winner first.
Vote_RewritesSlots(round, match, winnerTrackId) ==
    LET result == voteChecks(tracks, winners, round, match, winnerTrackId)
        mine == voteWinners(winners, round, match, winnerTrackId)
        finalWinner == voteFinalWinner(tracks, mine)
        accepted == bracketRow /\ result = "ok"
    IN  /\ \A p \in DOMAIN h : h[p].pc = "idle"
        /\ winners' = IF accepted THEN mine ELSE winners
        /\ completedAt' = IF accepted THEN Truthy(finalWinner) ELSE completedAt
        /\ status' = IF accepted /\ Truthy(finalWinner) THEN "completed" ELSE status
        /\ tracks' = IF accepted
                     THEN <<winnerTrackId>>
                              \o SelectSeq(tracks, LAMBDA id : id # winnerTrackId)
                     ELSE tracks
        /\ reply' = VoteReply(round, match, winnerTrackId,
                              IF ~bracketRow THEN "bracket_not_started" ELSE result,
                              IF accepted THEN finalWinner ELSE Undefined)
        /\ UNCHANGED <<h, tournament, bracketRow, oauth, tournamentTracks, spotify>>

Vote(round, match, winnerTrackId) ==
    LET result == voteChecks(tracks, winners, round, match, winnerTrackId)
        mine == voteWinners(winners, round, match, winnerTrackId)
        finalWinner == voteFinalWinner(tracks, mine)
    IN  /\ \A p \in DOMAIN h : h[p].pc = "idle"
        /\ IF ~bracketRow
           THEN /\ reply' = VoteReply(round, match, winnerTrackId,
                                      "bracket_not_started", Undefined)
                /\ UNCHANGED <<winners, completedAt, status>>
           ELSE IF result # "ok"
           THEN /\ reply' = VoteReply(round, match, winnerTrackId, result, Undefined)
                /\ UNCHANGED <<winners, completedAt, status>>
           ELSE /\ winners' = mine
                /\ completedAt' = Truthy(finalWinner)
                /\ status' = IF Truthy(finalWinner) THEN "completed" ELSE status
                /\ reply' = VoteReply(round, match, winnerTrackId, "ok", finalWinner)
        /\ UNCHANGED <<tracks, h, tournament, bracketRow, oauth, tournamentTracks, spotify>>

-----------------------------------------------------------------------------
(* GET /tournaments/:id/state *)

StateReply(st, w, next, winnerTrackId) ==
    [op |-> "state", status |-> st, winners |-> w, nextMatch |-> next,
     winnerTrackId |-> winnerTrackId]

GetState ==
    LET size == Len(tracks)
        rounds == totalRounds(size)
        next == nextOpenMatch(size, tracks, winners)
        winnerTrackId == Lookup(winners, matchKey(rounds - 1, 0))
    IN  /\ reply' = IF status = Undefined THEN [op |-> "state", error |-> "not_found"]
                    ELSE IF ~bracketRow THEN [op |-> "state", status |-> status,
                                              bracket |-> Null]
                    ELSE StateReply(status, winners, next, winnerTrackId)
        /\ UNCHANGED <<tracks, winners, completedAt, status, h, tournament, bracketRow, oauth, tournamentTracks, spotify>>

-----------------------------------------------------------------------------
(* GET /tournaments/:id/results *)

\* The response carries one entry per ranked id, looked up in the tournament's
\* track rows; the model keeps the ids.
ResultsReply(ranking) ==
    [op |-> "results",
     result |-> IF ranking = Null THEN "tournament_not_completed" ELSE "ok",
     ranking |-> ranking]

GetResults ==
    LET size == Len(tracks)
        ranking == computeRanking(size, tracks, winners)
    IN  /\ reply' = IF ~bracketRow
                    THEN [op |-> "results", result |-> "bracket_not_started",
                          ranking |-> Null]
                    ELSE ResultsReply(ranking)
        /\ UNCHANGED <<tracks, winners, completedAt, status, h, tournament, bracketRow, oauth, tournamentTracks, spotify>>

-----------------------------------------------------------------------------
(* The state a successful start leaves: the slot list, an empty winners map, *)
(* no completedAt, status in_progress.                                        *)

NoReply == [op |-> "none"]

Procs == 1..NumProcs

IdleHandler ==
    [pc |-> "idle", round |-> 0, match |-> 0, winnerTrackId |-> Undefined,
     winners |-> EmptyMap, finalWinner |-> Undefined, result |-> Undefined]

\* The tournaments row of a started top_tracks tournament: both users
\* attached, no playlists, no mood.  A null column is rendered as Undefined.
StartedRow ==
    [sourceType |-> "top_tracks", hostUserId |-> "u1", challengerUserId |-> "u2",
     hostPlaylistId |-> Undefined, challengerPlaylistId |-> Undefined,
     mood |-> Undefined, bracketSize |-> MinBracketSize, meshMode |-> 0, seed |-> 0]

\* The tournament_tracks rows behind the slot list of a tournament whose
\* start took MinBracketSize tracks: all the host's for a playlist tournament;
\* otherwise the host's tracks are in the odd slots and the challenger's in
\* the even ones, and the host's rows are inserted first.
SlotRows(tn) ==
    LET perUser == MinBracketSize \div 2
    IN  [i \in 1..MinBracketSize |->
            IF tn.sourceType = "playlist"
            THEN [trackId |-> SlotList[i], ownerUserId |-> tn.hostUserId]
            ELSE IF i <= perUser
            THEN [trackId |-> SlotList[2 * i - 1], ownerUserId |-> tn.hostUserId]
            ELSE [trackId |-> SlotList[2 * (i - perUser)],
                  ownerUserId |-> tn.challengerUserId]]

NoOauth == [host |-> 0, challenger |-> 0]

\* Spotify's lists where no request of the specification reads them.
NoFetch == [host |-> <<>>, challenger |-> <<>>]

Init ==
    /\ tracks = SlotList
    /\ winners = EmptyMap
    /\ completedAt = FALSE
    /\ status = "in_progress"
    /\ reply = NoReply
    /\ h = [p \in Procs |-> IdleHandler]
    /\ tournament = StartedRow
    /\ bracketRow = TRUE
    /\ oauth = NoOauth
    /\ tournamentTracks = SlotRows(StartedRow)
    /\ spotify = NoFetch

Next ==
    \/ \E round \in RoundArgs, match \in MatchArgs, winnerTrackId \in IdArgs :
          Vote(round, match, winnerTrackId)
    \/ GetState
    \/ GetResults

Spec == Init /\ [][Next]_vars

-----------------------------------------------------------------------------
(* The vote handler step by step.  It awaits three times: the read of the   *)
(* bracket row, the update of the bracket row, and (when the final match    *)
(* is decided) the update of the tournaments row.  Other handlers run       *)
(* while it waits; neither the read and the write nor the two writes are    *)
(* inside a transaction.                                                    *)

\* The ids the concurrent requests carry.
ConcIdArgs == FirstEntrants

ConcRoundArgs == 0..(totalRounds(MinBracketSize) - 1)

\* await db.query.tournamentBracketState.findFirst(...), then the checks and
\* the mutation of the handler's own copy of the winners object.
VoteRead(p, round, match, winnerTrackId) ==
    LET result == voteChecks(tracks, winners, round, match, winnerTrackId)
        mine == voteWinners(winners, round, match, winnerTrackId)
        req == [IdleHandler EXCEPT !.round = round, !.match = match,
                                   !.winnerTrackId = winnerTrackId]
    IN  /\ h[p].pc = "idle"
        /\ h' = [h EXCEPT ![p] =
                  IF result # "ok"
                  THEN [req EXCEPT !.pc = "done", !.result = result]
                  ELSE [req EXCEPT !.pc = "update_bracket", !.winners = mine,
                                   !.finalWinner = voteFinalWinner(tracks, mine)]]
        /\ UNCHANGED <<tracks, winners, completedAt, status, reply, tournament, bracketRow, oauth, tournamentTracks, spotify>>

\* await db.update(tournamentBracketState).set({winnersJson, completedAt, ...})
VoteUpdateBracket(p) ==
    /\ h[p].pc = "update_bracket"
    /\ winners' = h[p].winners
    /\ completedAt' = Truthy(h[p].finalWinner)
    /\ h' = [h EXCEPT ![p] =
              IF Truthy(h[p].finalWinner)
              THEN [h[p] EXCEPT !.pc = "update_status", !.winners = EmptyMap]
              ELSE [h[p] EXCEPT !.pc = "done", !.winners = EmptyMap, !.result = "ok"]]
    /\ UNCHANGED <<tracks, status, reply, tournament, bracketRow, oauth, tournamentTracks, spotify>>

\* if (finalWinner) await db.update(tournaments).set({status: "completed", ...})
VoteUpdateStatus(p) ==
    /\ h[p].pc = "update_status"
    /\ status' = "completed"
    /\ h' = [h EXCEPT ![p] = [h[p] EXCEPT !.pc = "done", !.result = "ok"]]
    /\ UNCHANGED <<tracks, winners, completedAt, reply, tournament, bracketRow, oauth, tournamentTracks, spotify>>

\* return c.json(...): the response leaves, the handler is gone.
VoteReturn(p) ==
    /\ h[p].pc = "done"
    /\ h' = [h EXCEPT ![p] = IdleHandler]
    /\ UNCHANGED <<tracks, winners, completedAt, status, reply, tournament, bracketRow, oauth, tournamentTracks, spotify>>

NextConc ==
    \/ \E p \in Procs, round \in ConcRoundArgs, match \in MatchArgs,
          winnerTrackId \in ConcIdArgs :
          VoteRead(p, round, match, winnerTrackId)
    \/ \E p \in Procs : VoteUpdateBracket(p)
    \/ \E p \in Procs : VoteUpdateStatus(p)
    \/ \E p \in Procs : VoteReturn(p)

SpecConc == Init /\ [][NextConc]_vars

-----------------------------------------------------------------------------
(* The pure functions on arbitrary winners maps: every subset of the       *)
(* bracket's match keys, with values from the leading slots of the list.   *)

BracketMatches(size) ==
    {<<r, m>> \in (0..(totalRounds(size) - 1)) \X (0..(size - 1)) :
        m < matchCount(size, r)}

BracketKeys == {matchKey(rm[1], rm[2]) : rm \in BracketMatches(MinBracketSize)}

PureIds == {TrackNames[i] : i \in 1..NumPureIds}

\* One match index past the last match of round 0, whose slots do not exist.
ProbeMatchArgs == 0..matchCount(MinBracketSize, 0)

ResolveReply(round, match, participants) ==
    [op |-> "resolve", round |-> round, match |-> match,
     participants |-> participants]

\* A call resolveMatchParticipants(size, tracks, winners, round, match).
Resolve(round, match) ==
    /\ reply' = ResolveReply(round, match,
                    resolveMatchParticipants(Len(tracks), tracks, winners, round, match))
    /\ UNCHANGED <<tracks, winners, completedAt, status, h, tournament, bracketRow, oauth, tournamentTracks, spotify>>

InitPure ==
    /\ tracks = SlotList
    /\ winners \in UNION {[K -> PureIds] : K \in SUBSET BracketKeys}
    /\ completedAt = FALSE
    /\ status = "in_progress"
    /\ reply = NoReply
    /\ h = [p \in Procs |-> IdleHandler]
    /\ tournament = StartedRow
    /\ bracketRow = TRUE
    /\ oauth = NoOauth
    /\ tournamentTracks = SlotRows(StartedRow)
    /\ spotify = NoFetch

NextPure ==
    \/ GetState
    \/ GetResults
    \/ \E round \in RoundArgs, match \in ProbeMatchArgs : Resolve(round, match)

SpecPure == InitPure /\ [][NextPure]_vars

-----------------------------------------------------------------------------
(* The duel page votes on the match the state response names as next, for    *)
(* one of its two tracks; the results page reads the ranking.                *)

AllIds == {TrackNames[i] : i \in 1..MinBracketSize}

ClientVote(winnerTrackId) ==
    LET next == nextOpenMatch(Len(tracks), tracks, winners)
    IN  /\ next # Null
        /\ winnerTrackId \in {next[1].a, next[1].b}
        /\ Vote(next[1].round, next[1].match, winnerTrackId)

NextRank ==
    \/ \E winnerTrackId \in AllIds : ClientVote(winnerTrackId)
    \/ GetResults

SpecRank == Init /\ [][NextRank]_vars

-----------------------------------------------------------------------------
(* The duel page at work on a bracket that also receives vote requests for  *)
(* matches the page does not show: whenever the page shows a match, a vote  *)
(* for one of its two tracks is eventually sent.                             *)

Play == \E winnerTrackId \in AllIds : ClientVote(winnerTrackId)

\* Requests from elsewhere: for the first track of matches 2 and 3 of round 0
\* and for the fifth track in match 1 of round 1.
OutOfTurnArgs ==
    {<<0, m, TrackNames[2 * m + 1]>> : m \in {2, 3}} \cup {<<1, 1, TrackNames[5]>>}

OutOfTurn == \E v \in OutOfTurnArgs : Vote(v[1], v[2], v[3])

NextPlay == Play \/ OutOfTurn

SpecPlay == Init /\ [][NextPlay]_vars /\ WF_vars(Play)

-----------------------------------------------------------------------------
(* Direct calls of the exported functions of bracket.ts with a size of the   *)
(* caller's choosing, on the slot list and winners map of the state.         *)

SizeArgs == (0 - SizeMargin)..(MaxBracketSize + SizeMargin)

\* The sizes the three functions that walk the bracket are called with: up to
\* twice the size of the slot list in the state.
WalkSizeArgs == (0 - SizeMargin)..(2 * MinBracketSize + SizeMargin)

\* Every round index of the largest bracket, and one past it.
SizeRoundArgs == 0..totalRounds(MaxBracketSize)

CallReply(fn, size, outcome) == [op |-> fn, size |-> size, outcome |-> outcome]

CallTotalRounds(size) ==
    /\ reply' = CallReply("totalRounds", size, totalRoundsCall(size))
    /\ UNCHANGED <<tracks, winners, completedAt, status, h, tournament, bracketRow, oauth, tournamentTracks, spotify>>

CallMatchCount(size, round) ==
    /\ reply' = [op |-> "matchCount", size |-> size, round |-> round,
                 value |-> matchCount(size, round)]
    /\ UNCHANGED <<tracks, winners, completedAt, status, h, tournament, bracketRow, oauth, tournamentTracks, spotify>>

CallNextOpenMatch(size) ==
    /\ reply' = CallReply("nextOpenMatch", size, nextOpenMatchCall(size, tracks, winners))
    /\ UNCHANGED <<tracks, winners, completedAt, status, h, tournament, bracketRow, oauth, tournamentTracks, spotify>>

CallBracketWinner(size) ==
    /\ reply' = CallReply("bracketWinner", size, bracketWinnerCall(size, winners))
    /\ UNCHANGED <<tracks, winners, completedAt, status, h, tournament, bracketRow, oauth, tournamentTracks, spotify>>

CallComputeRanking(size) ==
    /\ reply' = CallReply("computeRanking", size, computeRankingCall(size, tracks, winners))
    /\ UNCHANGED <<tracks, winners, completedAt, status, h, tournament, bracketRow, oauth, tournamentTracks, spotify>>

NextSize ==
    \/ \E size \in SizeArgs : CallTotalRounds(size)
    \/ \E size \in SizeArgs, round \in SizeRoundArgs : CallMatchCount(size, round)
    \/ \E size \in WalkSizeArgs : CallNextOpenMatch(size)
    \/ \E size \in WalkSizeArgs : CallBracketWinner(size)
    \/ \E size \in WalkSizeArgs : CallComputeRanking(size)

SpecSize == Init /\ [][NextSize]_vars

-----------------------------------------------------------------------------
(* mulberry32 and seededShuffle of bracket.ts.  A 32-bit word is the pair of *)
(* its upper and lower 16 bits, so that no intermediate value leaves the     *)
(* range of the integers at hand; every operation is the 32-bit operation of *)
(* the JavaScript operator it stands for (|0 and >>>0 keep the bits).        *)

Half == Pow2(16)

Byte == Pow2(8)

\* The word of a number below 2^31.
Word32(n) == <<n \div Half, n % Half>>

RECURSIVE bitsXor(_, _, _)
bitsXor(a, b, n) ==
    IF n = 0 THEN 0
    ELSE ((a + b) % 2) + 2 * bitsXor(a \div 2, b \div 2, n - 1)

RECURSIVE bitsOr(_, _, _)
bitsOr(a, b, n) ==
    IF n = 0 THEN 0
    ELSE (IF a % 2 = 1 \/ b % 2 = 1 THEN 1 ELSE 0)
            + 2 * bitsOr(a \div 2, b \div 2, n - 1)

Nibble == Pow2(4)

\* The two operators on 4-bit digits, tabulated.
XorNibble == [x \in 0..(Nibble - 1) |-> [y \in 0..(Nibble - 1) |-> bitsXor(x, y, 4)]]

OrNibble == [x \in 0..(Nibble - 1) |-> [y \in 0..(Nibble - 1) |-> bitsOr(x, y, 4)]]

\* A 16-bit operation from its table, digit by digit.
digitwise(table, a, b) ==
    table[a % Nibble][b % Nibble]
        + Nibble * table[(a \div Nibble) % Nibble][(b \div Nibble) % Nibble]
        + Byte * table[(a \div Byte) % Nibble][(b \div Byte) % Nibble]
        + Byte * Nibble * table[a \div (Byte * Nibble)][b \div (Byte * Nibble)]

\* a ^ b
xor32(a, b) == <<digitwise(XorNibble, a[1], b[1]), digitwise(XorNibble, a[2], b[2])>>

\* a | b
or32(a, b) == <<digitwise(OrNibble, a[1], b[1]), digitwise(OrNibble, a[2], b[2])>>

\* (a + b) | 0
add32(a, b) ==
    LET lo == a[2] + b[2]
    IN  <<(a[1] + b[1] + (lo \div Half)) % Half, lo % Half>>

\* a >>> k, for 0 < k < 16
shr32(a, k) ==
    <<a[1] \div Pow2(k),
      (a[1] % Pow2(k)) * Pow2(16 - k) + (a[2] \div Pow2(k))>>

\* The lower 16 bits of the product of two 16-bit numbers.
mul16(x, y) ==
    ((((x \div Byte) * (y % Byte) + (x % Byte) * (y \div Byte)) % Byte) * Byte
        + (x % Byte) * (y % Byte)) % Half

\* Math.imul(a, b): the lower 32 bits of the product.
imul(a, b) ==
    LET a0 == a[2] % Byte
        a1 == a[2] \div Byte
        b0 == b[2] % Byte
        b1 == b[2] \div Byte
        low == (a1 * b0 + a0 * b1) * Byte + a0 * b0
        carry == (low \div Half) + a1 * b1
    IN  <<(mul16(a[1], b[2]) + mul16(a[2], b[1]) + carry) % Half, low % Half>>

\* 0x6d2b79f5
MulberryStep == <<27947, 31221>>

\* a = (a + 0x6d2b79f5) | 0: the generator's state after one more call.
mulberryAdvance(a) == add32(a, MulberryStep)

\* The word the call returns divided by 4294967296, from the advanced state.
mulberryWord(a) ==
    LET t1 == imul(xor32(a, shr32(a, 15)), or32(Word32(1), a))
        t2 == xor32(add32(t1, imul(xor32(t1, shr32(t1, 7)), or32(Word32(61), t1))), t1)
    IN  xor32(t2, shr32(t2, 14))

\* Math.floor(rand() * n) for the word x the call returned: x / 2^32 and its
\* product with n <= 64 are exact doubles.
randIndex(x, n) == (x[1] * n + ((x[2] * n) \div Half)) \div Half

\* [out[i], out[j]] = [out[j], out[i]], on 0-based indices.
swap_Overwrite(out, i, j) == [out EXCEPT ![i + 1] = out[j + 1]]

swap(out, i, j) == [out EXCEPT ![i + 1] = out[j + 1], ![j + 1] = out[i + 1]]

\* The for loop of seededShuffle from index i down, with generator state a;
\* draws lists the (i, j) of every swap.
RECURSIVE shuffleLoop(_, _, _, _)
shuffleLoop(out, a, i, draws) ==
    IF i <= 0 THEN [out |-> out, draws |-> draws]
    ELSE LET next == mulberryAdvance(a)
             j == randIndex(mulberryWord(next), i + 1)
         IN  shuffleLoop(swap(out, i, j), next, i - 1,
                         Append(draws, [i |-> i, j |-> j]))

\* One call: arr is the caller's array after the call (the function writes
\* to its copy only), out the array returned.
seededShuffleRun(arr, seed) ==
    LET run == shuffleLoop(arr, seed, Len(arr) - 1, <<>>)
    IN  [arr |-> arr, out |-> run.out, draws |-> run.draws]

\* A generator whose state also depends on the slot list written before.
seededShuffle_SharedGenerator(arr, seed) ==
    seededShuffleRun(arr, add32(seed, Word32(Len(tracks)))).out

seededShuffle(arr, seed) == seededShuffleRun(arr, seed).out

-----------------------------------------------------------------------------
(* Direct calls of seededShuffle. *)

\* tournaments.seed is a random 32-bit number modulo this.
SeedModulus == 1000000000

\* What the start handler xors the tournament's seed with: for the host's
\* tracks (0x13579bdf), the challenger's (0x2468ace0), the mesh (0x9e3779b9).
HostSalt == <<4951, 39903>>

ChallengerSalt == <<9320, 44256>>

MeshSalt == <<40503, 31161>>

\* Seeds of tournaments: the least, the greatest and two more.
SeedArgs == {0, 1, 2, SeedModulus - 1}

\* The seeds seededShuffle is called with: a tournament's seed, bare or
\* xored with one of the three salts.
ShuffleSeeds ==
    {xor32(Word32(seed), salt) :
        seed \in SeedArgs, salt \in {Word32(0), HostSalt, ChallengerSalt, MeshSalt}}

\* Arrays to shuffle: of every length up to one more than the slot list's,
\* two ids occurring twice.
ShuffleBase == <<TrackNames[1], TrackNames[2]>> \o SlotList

ShuffleInputs == {SubSeq(ShuffleBase, 1, n) : n \in 0..Len(ShuffleBase)}

\* The call about to be made, as the state before it.
ShuffleArgs(arr, seed) == [op |-> "args", arr |-> arr, seed |-> seed]

\* seededShuffle(arr, seed) on the array and seed at hand: given is the array
\* before the call, arr the same array after it.
CallSeededShuffle ==
    /\ reply.op \in {"args", "seededShuffle"}
    /\ LET run == seededShuffleRun(reply.arr, reply.seed)
       IN  reply' = [op |-> "seededShuffle", given |-> reply.arr, seed |-> reply.seed,
                     arr |-> run.arr, out |-> run.out, draws |-> run.draws]
    /\ UNCHANGED <<tracks, winners, completedAt, status, h, tournament, bracketRow, oauth,
                   tournamentTracks, spotify>>

InitShuffle ==
    /\ tracks = SlotList
    /\ winners = EmptyMap
    /\ completedAt = FALSE
    /\ status = "in_progress"
    /\ reply \in {ShuffleArgs(arr, seed) : arr \in ShuffleInputs, seed \in ShuffleSeeds}
    /\ h = [p \in Procs |-> IdleHandler]
    /\ tournament = StartedRow
    /\ bracketRow = TRUE
    /\ oauth = NoOauth
    /\ tournamentTracks = SlotRows(StartedRow)
    /\ spotify = NoFetch

NextShuffle == CallSeededShuffle

SpecShuffle == InitShuffle /\ [][NextShuffle]_vars

-----------------------------------------------------------------------------
(* The lifecycle of one tournament: POST /login, GET /auth/callback,         *)
(* POST /tournaments, PATCH /tournaments/:id/settings and                    *)
(* POST /tournaments/:id/start.  The worker (functions/api) and the legacy   *)
(* server run the same statements in every one of these handlers but the     *)
(* settings handler, which takes the server as an argument.                  *)
(* Every request asks for a bracket of MinBracketSize and carries no mood;   *)
(* a missing tournaments row is status = Undefined.                          *)

SourceTypes == {"top_tracks", "playlist", "playlist_vs", "mood"}

Servers == {"worker", "legacy"}

Users == {"u1", "u2"}

\* requireUser: the user of the session, or none.
SessionArgs == Users \cup {Undefined}

PlaylistIds == {"p1"}

Moods == {"chill"}

\* What a settings request may carry as a playlist: a raw id, a spotify: URI,
\* an open.spotify.com URL, a blank string, or other text.
PlaylistInputs ==
    [form : {"id", "uri", "url"}, id : PlaylistIds]
        \cup {[form |-> "blank", id |-> Undefined], [form |-> "other", id |-> Undefined]}

\* The playlist id inside the input, or null (rendered as Undefined).
extractPlaylistId(input) ==
    IF input.form \in {"id", "uri", "url"} THEN input.id ELSE Undefined

NoRow ==
    [sourceType |-> Undefined, hostUserId |-> Undefined, challengerUserId |-> Undefined,
     hostPlaylistId |-> Undefined, challengerPlaylistId |-> Undefined,
     mood |-> Undefined, bracketSize |-> Undefined, meshMode |-> Undefined,
     seed |-> Undefined]

\* t.bracketSize of every tournament of the lifecycle.
RequestedBracketSize == MinBracketSize

\* What POST /login and POST /tournaments insert; every request of the
\* lifecycle asks for RequestedBracketSize and no mesh, and draws seed 0.
NewRow(sourceType, hostUserId, hostPlaylistId) ==
    [sourceType |-> sourceType, hostUserId |-> hostUserId,
     challengerUserId |-> Undefined, hostPlaylistId |-> hostPlaylistId,
     challengerPlaylistId |-> Undefined, mood |-> Undefined,
     bracketSize |-> RequestedBracketSize, meshMode |-> 0, seed |-> 0]

Started == status \in {"in_progress", "completed"}

\* POST /login with role host: inserts the tournament and an oauth state.
LoginHost(sourceType, hostPlaylistId) ==
    /\ status = Undefined
    /\ tournament' = NewRow(sourceType, Undefined, hostPlaylistId)
    /\ status' = "waiting_for_host"
    /\ oauth' = [oauth EXCEPT !.host = @ + 1]
    /\ reply' = [op |-> "login", role |-> "host", result |-> "ok"]
    /\ UNCHANGED <<tracks, winners, completedAt, h, bracketRow, tournamentTracks, spotify>>

\* POST /login with role challenger.
LoginChallenger ==
    /\ IF status = Undefined
       THEN /\ reply' = [op |-> "login", role |-> "challenger",
                         result |-> "tournament not found"]
            /\ UNCHANGED oauth
       ELSE IF Truthy(tournament.challengerUserId)
       THEN /\ reply' = [op |-> "login", role |-> "challenger",
                         result |-> "tournament already has a challenger"]
            /\ UNCHANGED oauth
       ELSE /\ oauth.challenger < MaxChallengerLogins
            /\ oauth' = [oauth EXCEPT !.challenger = @ + 1]
            /\ reply' = [op |-> "login", role |-> "challenger", result |-> "ok"]
    /\ UNCHANGED <<tracks, winners, completedAt, status, h, tournament, bracketRow, tournamentTracks, spotify>>

\* POST /tournaments by a signed-in user, who becomes the host.
CreateTournament(user, sourceType, hostPlaylistId) ==
    /\ status = Undefined
    /\ IF user = Undefined
       THEN /\ reply' = [op |-> "create", result |-> "unauthorized"]
            /\ UNCHANGED <<tournament, status>>
       ELSE /\ tournament' = NewRow(sourceType, user, hostPlaylistId)
            /\ status' = IF sourceType = "playlist" THEN "ready"
                          ELSE "waiting_for_challenger"
            /\ reply' = [op |-> "create", result |-> "ok"]
    /\ UNCHANGED <<tracks, winners, completedAt, h, bracketRow, oauth, tournamentTracks, spotify>>

\* GET /auth/callback for a pending login of the role, signed in as user.
\* The callback without the branch for a started tournament.
AuthCallback_AlwaysRecomputes(role, user) ==
    /\ oauth[role] > 0
    /\ oauth' = [oauth EXCEPT ![role] = @ - 1]
    /\ IF role = "host"
       THEN /\ tournament' = [tournament EXCEPT !.hostUserId = user]
            /\ status' = IF tournament.sourceType = "playlist" THEN "ready"
                          ELSE "waiting_for_challenger"
       ELSE /\ tournament' = [tournament EXCEPT !.challengerUserId = user]
            /\ status' = IF /\ tournament.sourceType = "playlist_vs"
                             /\ ~Truthy(tournament.challengerPlaylistId)
                          THEN "waiting_for_challenger" ELSE "ready"
    /\ reply' = [op |-> "callback", role |-> role, result |-> "ok"]
    /\ UNCHANGED <<tracks, winners, completedAt, h, bracketRow, tournamentTracks, spotify>>

AuthCallback(role, user) ==
    /\ oauth[role] > 0
    /\ oauth' = [oauth EXCEPT ![role] = @ - 1]
    /\ IF role = "host"
       THEN /\ tournament' = [tournament EXCEPT !.hostUserId = user]
            /\ status' = IF tournament.sourceType = "playlist" THEN "ready"
                          ELSE "waiting_for_challenger"
       ELSE IF Started
       THEN /\ tournament' = [tournament EXCEPT !.challengerUserId = user]
            /\ UNCHANGED status
       ELSE /\ tournament' = [tournament EXCEPT !.challengerUserId = user]
            /\ status' = IF /\ tournament.sourceType = "playlist_vs"
                             /\ ~Truthy(tournament.challengerPlaylistId)
                          THEN "waiting_for_challenger" ELSE "ready"
    /\ reply' = [op |-> "callback", role |-> role, result |-> "ok"]
    /\ UNCHANGED <<tracks, winners, completedAt, h, bracketRow, tournamentTracks, spotify>>

\* The callback whose state expired or whose exchange with Spotify failed.
AuthCallbackFailed(role) ==
    /\ oauth[role] > 0
    /\ oauth' = [oauth EXCEPT ![role] = @ - 1]
    /\ reply' = [op |-> "callback", role |-> role, result |-> "oauth_failed"]
    /\ UNCHANGED <<tracks, winners, completedAt, status, h, tournament, bracketRow, tournamentTracks, spotify>>

-----------------------------------------------------------------------------
(* PATCH /tournaments/:id/settings, one field per request *)

SettingsFields == {"hostPlaylistId", "challengerPlaylistId", "mood"}

SettingsInputs(field) == IF field = "mood" THEN Moods ELSE PlaylistInputs

\* The error the handler answers before it writes, or "ok".
settingsChecks(st, tn, user, field, input) ==
    IF user = Undefined THEN "unauthorized"
    ELSE IF st = Undefined THEN "not_found"
    ELSE IF tn.hostUserId # user /\ tn.challengerUserId # user THEN "forbidden"
    ELSE IF field = "hostPlaylistId" THEN
        IF tn.hostUserId # user THEN "only_host_can_set_host_playlist"
        ELSE IF ~Truthy(extractPlaylistId(input)) THEN "invalid_playlist_id"
        ELSE "ok"
    ELSE IF field = "challengerPlaylistId" THEN
        IF tn.challengerUserId # user THEN "only_challenger_can_set_challenger_playlist"
        ELSE IF ~Truthy(extractPlaylistId(input)) THEN "invalid_playlist_id"
        ELSE "ok"
    ELSE IF tn.hostUserId # user THEN "only_host_can_set_mood"
    ELSE "ok"

\* db.update(tournaments).set(updates)
settingsUpdates(tn, field, input) ==
    IF field = "mood" THEN [tn EXCEPT !.mood = input]
    ELSE [tn EXCEPT ![field] = extractPlaylistId(input)]

\* The status after the handler's closing block, run on the row just written.
\* The worker skips the block for a started tournament; the legacy server
\* runs it for every playlist_vs tournament.
settingsStatus(server, st, fresh) ==
    IF /\ fresh.sourceType = "playlist_vs"
       /\ (server = "legacy" \/ (st # "in_progress" /\ st # "completed"))
    THEN IF /\ Truthy(fresh.hostUserId) /\ Truthy(fresh.challengerUserId)
            /\ Truthy(fresh.hostPlaylistId) /\ Truthy(fresh.challengerPlaylistId)
         THEN "ready" ELSE "waiting_for_challenger"
    ELSE st

Settings(server, user, field, input) ==
    LET result == settingsChecks(status, tournament, user, field, input)
        fresh == settingsUpdates(tournament, field, input)
    IN  /\ IF result # "ok"
           THEN UNCHANGED <<tournament, status>>
           ELSE /\ tournament' = fresh
                /\ status' = settingsStatus(server, status, fresh)
        /\ reply' = [op |-> "settings", server |-> server, field |-> field,
                     result |-> result]
        /\ UNCHANGED <<tracks, winners, completedAt, h, bracketRow, oauth, tournamentTracks, spotify>>

-----------------------------------------------------------------------------
(* POST /tournaments/:id/start.  hostCount and challengerCount are the       *)
(* numbers of distinct tracks Spotify returns for the host's and for the     *)
(* challenger's playlist or top tracks; the two lists share no track.        *)

Min(a, b) == IF a <= b THEN a ELSE b

\* 2 ** Math.floor(Math.log2(n)); Math.log2(0) is -Infinity and 2 ** it is 0.
pow2Floor(n) == IF n <= 0 THEN 0 ELSE Pow2(Log2(n))

\* The while (true) loop that settles perUser; 0 where it returns
\* not_enough_tracks.
RECURSIVE settlePerUser(_, _, _)
settlePerUser(perUser, hostCount, challengerCount) ==
    LET effective == Min(Min(hostCount, perUser), Min(challengerCount, perUser))
        effectivePow2 == pow2Floor(effective)
    IN  IF effectivePow2 < 4 THEN 0
        ELSE IF effectivePow2 = perUser THEN perUser
        ELSE settlePerUser(effectivePow2, hostCount, challengerCount)

\* startGate without the tests of the playlists.
startGate_PlaylistsUntested(st, tn, user) ==
    IF st = Undefined THEN "not_found"
    ELSE IF tn.sourceType = "playlist" THEN
        IF ~Truthy(tn.hostUserId) THEN "tournament_not_ready"
        ELSE IF st = "in_progress" \/ st = "completed" THEN "noop"
        ELSE "fetch"
    ELSE IF user = Undefined THEN "unauthorized"
    ELSE IF ~Truthy(tn.hostUserId) THEN "tournament_not_ready"
    ELSE IF user # tn.hostUserId
            /\ ~(Truthy(tn.challengerUserId) /\ user = tn.challengerUserId)
         THEN "forbidden"
    ELSE IF tn.sourceType = "playlist_vs" THEN
        IF st = "in_progress" \/ st = "completed" THEN "noop"
        ELSE IF ~Truthy(tn.hostUserId) \/ ~Truthy(tn.challengerUserId)
             THEN "tournament_not_ready"
        ELSE "fetch"
    ELSE IF ~Truthy(tn.challengerUserId) THEN "tournament_not_ready"
    ELSE "fetch"

\* The handler up to its requests to Spotify: the error it answers, "noop"
\* where it answers ok without a write, or "fetch" where it goes on.
startGate(st, tn, user) ==
    IF st = Undefined THEN "not_found"
    ELSE IF tn.sourceType = "playlist" THEN
        IF ~Truthy(tn.hostUserId) THEN "tournament_not_ready"
        ELSE IF st = "in_progress" \/ st = "completed" THEN "noop"
        ELSE IF ~Truthy(tn.hostPlaylistId) THEN "playlist_not_selected"
        ELSE "fetch"
    ELSE IF user = Undefined THEN "unauthorized"
    ELSE IF ~Truthy(tn.hostUserId) THEN "tournament_not_ready"
    ELSE IF user # tn.hostUserId
            /\ ~(Truthy(tn.challengerUserId) /\ user = tn.challengerUserId)
         THEN "forbidden"
    ELSE IF tn.sourceType = "playlist_vs" THEN
        IF st = "in_progress" \/ st = "completed" THEN "noop"
        ELSE IF ~Truthy(tn.hostUserId) \/ ~Truthy(tn.challengerUserId)
             THEN "tournament_not_ready"
        ELSE IF ~Truthy(tn.hostPlaylistId) \/ ~Truthy(tn.challengerPlaylistId)
             THEN "playlist_not_selected"
        ELSE "fetch"
    ELSE IF ~Truthy(tn.challengerUserId) THEN "tournament_not_ready"
    ELSE "fetch"

\* What the handler does when the two lists fetched share no track and hold
\* hostCount and challengerCount distinct tracks: the error it answers,
\* "noop", or "started" where it writes the bracket.
startOutcome(st, tn, user, hostCount, challengerCount) ==
    LET gate == startGate(st, tn, user)
    IN  IF gate # "fetch" THEN gate
        ELSE IF tn.sourceType = "playlist" THEN
            IF pow2Floor(Min(tn.bracketSize, hostCount)) < 8
            THEN "not_enough_tracks" ELSE "started"
        ELSE IF tn.sourceType = "playlist_vs" THEN
            IF settlePerUser(tn.bracketSize \div 2, hostCount, challengerCount) * 2 < 8
            THEN "not_enough_tracks" ELSE "started"
        ELSE IF settlePerUser(tn.bracketSize \div 2, hostCount, challengerCount) = 0
             THEN "not_enough_tracks"
        ELSE "started"

\* Enough tracks for the requested bracket, or one short: per user and, for
\* the host's list, which alone fills a playlist tournament, per bracket.
PerUserCountArgs == {RequestedBracketSize \div 2 - 1, RequestedBracketSize \div 2}

TrackCountArgs == PerUserCountArgs \cup {RequestedBracketSize - 1, RequestedBracketSize}

\* The bracket a start writes has RequestedBracketSize slots (the counts allow
\* that size or none): the shuffled slot list, no winners, no completedAt.
Start(user, hostCount, challengerCount) ==
    LET outcome == startOutcome(status, tournament, user, hostCount, challengerCount)
    IN  /\ \A p \in DOMAIN h : h[p].pc = "idle"
        /\ IF outcome = "started"
           THEN /\ tournamentTracks' = SlotRows(tournament)
                /\ tracks' = SlotList
                /\ winners' = EmptyMap
                /\ completedAt' = FALSE
                /\ bracketRow' = TRUE
                /\ status' = "in_progress"
                /\ tournament' = [tournament EXCEPT !.bracketSize = Len(SlotList)]
           ELSE UNCHANGED <<tracks, winners, completedAt, bracketRow, status,
                            tournament, tournamentTracks>>
        /\ reply' = [op |-> "start", user |-> user,
                     result |-> IF outcome \in {"noop", "started"} THEN "ok" ELSE outcome]
        /\ UNCHANGED <<h, oauth, spotify>>

-----------------------------------------------------------------------------
(* One tournament from before its creation on. *)

InitLife ==
    /\ tracks = <<>>
    /\ winners = EmptyMap
    /\ completedAt = FALSE
    /\ status = Undefined
    /\ reply = NoReply
    /\ h = [p \in Procs |-> IdleHandler]
    /\ tournament = NoRow
    /\ bracketRow = FALSE
    /\ oauth = NoOauth
    /\ tournamentTracks = <<>>
    /\ spotify = NoFetch

\* The duel page's votes in the lifecycle: for the first entrant of the next
\* open match.
LifeVote ==
    /\ bracketRow
    /\ \E winnerTrackId \in FirstEntrants : ClientVote(winnerTrackId)

\* A vote request sent before any bracket was written.
EarlyVote ==
    /\ ~bracketRow
    /\ Vote(0, 0, TrackNames[1])

NextLife ==
    \/ \E sourceType \in SourceTypes, hostPlaylistId \in PlaylistIds \cup {Undefined} :
          LoginHost(sourceType, hostPlaylistId)
    \/ LoginChallenger
    \/ \E user \in SessionArgs, sourceType \in SourceTypes,
          hostPlaylistId \in PlaylistIds \cup {Undefined} :
          CreateTournament(user, sourceType, hostPlaylistId)
    \/ \E role \in {"host", "challenger"}, user \in Users : AuthCallback(role, user)
    \/ \E role \in {"host", "challenger"} : AuthCallbackFailed(role)
    \/ \E server \in Servers, user \in SessionArgs, field \in SettingsFields :
          \E input \in SettingsInputs(field) : Settings(server, user, field, input)
    \/ \E user \in SessionArgs, hostCount \in TrackCountArgs,
          challengerCount \in PerUserCountArgs : Start(user, hostCount, challengerCount)
    \/ LifeVote
    \/ EarlyVote

SpecLife == InitLife /\ [][NextLife]_vars

-----------------------------------------------------------------------------
(* POST /tournaments/:id/start with the tracks Spotify returns: a candidate  *)
(* list is the sequence of the track ids fetched, best rank first.           *)

\* The id of the n-th track of Spotify's catalogue.
TrackId(n) == "t" \o ToString(n)

\* count tracks of the catalogue, from the from-th on.
Window(from, count) == [i \in 1..count |-> TrackId(from + i - 1)]

\* The loop without the test of seen.
RECURSIVE uniqueFrom_KeepAll(_, _, _, _)
uniqueFrom_KeepAll(arr, i, seen, out) ==
    IF i > Len(arr) THEN out
    ELSE uniqueFrom_KeepAll(arr, i + 1, seen \cup {arr[i]}, Append(out, arr[i]))

\* for (const rt of arr) { if (seen.has(id)) continue; seen.add(id); out.push(rt) }
RECURSIVE uniqueFrom(_, _, _, _)
uniqueFrom(arr, i, seen, out) ==
    IF i > Len(arr) THEN out
    ELSE IF arr[i] \in seen THEN uniqueFrom(arr, i + 1, seen, out)
    ELSE uniqueFrom(arr, i + 1, seen \cup {arr[i]}, Append(out, arr[i]))

uniqueById(arr) == uniqueFrom(arr, 1, {}, <<>>)

\* The loop of pickUnique from the i-th candidate on: what it returns (out)
\* and the set it shares with the next call (seen).
RECURSIVE pickFrom_IgnoreSeen(_, _, _, _, _)
pickFrom_IgnoreSeen(candidates, i, want, seen, out) ==
    IF i > Len(candidates) \/ Len(out) >= want THEN [out |-> out, seen |-> seen]
    ELSE pickFrom_IgnoreSeen(candidates, i + 1, want, seen \cup {candidates[i]},
                             Append(out, candidates[i]))

RECURSIVE pickFrom(_, _, _, _, _)
pickFrom(candidates, i, want, seen, out) ==
    IF i > Len(candidates) \/ Len(out) >= want THEN [out |-> out, seen |-> seen]
    ELSE IF candidates[i] \in seen THEN pickFrom(candidates, i + 1, want, seen, out)
    ELSE pickFrom(candidates, i + 1, want, seen \cup {candidates[i]},
                  Append(out, candidates[i]))

pickUnique(candidates, want, seen) == pickFrom(candidates, 1, want, seen, <<>>)

\* The loop giving up after a pass that did not accept.
sizingLoop_OnePass(perUser, hostCandidates, challengerCandidates, tried) ==
    LET hostPicked == pickUnique(hostCandidates, perUser, {})
        challengerPicked == pickUnique(challengerCandidates, perUser, hostPicked.seen)
        effective == Min(Len(hostPicked.out), Len(challengerPicked.out))
        effectivePow2 == pow2Floor(effective)
        passes == Append(tried, perUser)
    IN  IF effectivePow2 = perUser /\ effectivePow2 >= 4
        THEN [ok |-> TRUE, perUser |-> perUser, tried |-> passes,
              hostTracks |-> SubSeq(hostPicked.out, 1, perUser),
              challengerTracks |-> SubSeq(challengerPicked.out, 1, perUser)]
        ELSE [ok |-> FALSE, perUser |-> perUser, tried |-> passes,
              hostTracks |-> <<>>, challengerTracks |-> <<>>]

\* The while (true) loop on the two candidate lists, entered with perUser;
\* tried lists the perUser of every pass so far.
RECURSIVE sizingLoop(_, _, _, _)
sizingLoop(perUser, hostCandidates, challengerCandidates, tried) ==
    LET hostPicked == pickUnique(hostCandidates, perUser, {})
        challengerPicked == pickUnique(challengerCandidates, perUser, hostPicked.seen)
        effective == Min(Len(hostPicked.out), Len(challengerPicked.out))
        effectivePow2 == pow2Floor(effective)
        passes == Append(tried, perUser)
    IN  IF effectivePow2 < 4
        THEN [ok |-> FALSE, perUser |-> perUser, tried |-> passes,
              hostTracks |-> <<>>, challengerTracks |-> <<>>]
        ELSE IF effectivePow2 = perUser
        THEN [ok |-> TRUE, perUser |-> perUser, tried |-> passes,
              hostTracks |-> SubSeq(hostPicked.out, 1, perUser),
              challengerTracks |-> SubSeq(challengerPicked.out, 1, perUser)]
        ELSE sizingLoop(effectivePow2, hostCandidates, challengerCandidates, passes)

\* The loop pushing hostIds[i] twice.
interleave_HostTwice(hostIds, challengerIds, perUser) ==
    [k \in 1..(2 * perUser) |-> hostIds[(k + 1) \div 2]]

\* The loop pushing the challenger's track before the host's.
interleave_ChallengerFirst(hostIds, challengerIds, perUser) ==
    [k \in 1..(2 * perUser) |->
        IF k % 2 = 1 THEN challengerIds[(k + 1) \div 2] ELSE hostIds[k \div 2]]

\* for (let i = 0; i < perUser; i++) out.push(hostIds[i], challengerIds[i])
interleave(hostIds, challengerIds, perUser) ==
    [k \in 1..(2 * perUser) |->
        IF k % 2 = 1 THEN hostIds[(k + 1) \div 2] ELSE challengerIds[k \div 2]]

\* The tournament_tracks rows of the tracks taken from one user's list.
ownedBy(ids, ownerUserId) ==
    [i \in DOMAIN ids |-> [trackId |-> ids[i], ownerUserId |-> ownerUserId]]

NoPlan == [ok |-> FALSE, bracketSize |-> 0, rows |-> <<>>, bracketTracks |-> <<>>]

\* The playlist branch after the fetch: whether it writes and what.
playlistPlan(tn, playlistTracks) ==
    LET unique == uniqueById(playlistTracks)
        requested == Min(tn.bracketSize, Len(unique))
        bracketSize == pow2Floor(requested)
        selected == SubSeq(unique, 1, bracketSize)
    IN  IF bracketSize < 8 THEN NoPlan
        ELSE [ok |-> TRUE, bracketSize |-> bracketSize,
              rows |-> ownedBy(selected, tn.hostUserId),
              bracketTracks |-> seededShuffle(selected, xor32(Word32(tn.seed), HostSalt))]

\* The playlist_vs and the top_tracks/mood branch after the fetch.  Only the
\* playlist_vs branch passes its lists through uniqueById and tests the
\* final size once more.
versusPlan(tn, hostCandidates, challengerCandidates) ==
    LET isVs == tn.sourceType = "playlist_vs"
        sized == sizingLoop(tn.bracketSize \div 2,
                            IF isVs THEN uniqueById(hostCandidates) ELSE hostCandidates,
                            IF isVs THEN uniqueById(challengerCandidates)
                            ELSE challengerCandidates,
                            <<>>)
        perUser == sized.perUser
        hostIds == seededShuffle(sized.hostTracks, xor32(Word32(tn.seed), HostSalt))
        challengerIds ==
            seededShuffle(sized.challengerTracks, xor32(Word32(tn.seed), ChallengerSalt))
    IN  IF ~sized.ok \/ (isVs /\ perUser * 2 < 8) THEN NoPlan
        ELSE [ok |-> TRUE, bracketSize |-> perUser * 2,
              rows |-> ownedBy(sized.hostTracks, tn.hostUserId)
                          \o ownedBy(sized.challengerTracks, tn.challengerUserId),
              bracketTracks |->
                  IF tn.meshMode # 0
                  THEN seededShuffle(SubSeq(hostIds, 1, perUser)
                                        \o SubSeq(challengerIds, 1, perUser),
                                     xor32(Word32(tn.seed), MeshSalt))
                  ELSE interleave(hostIds, challengerIds, perUser)]

startPlan(tn, hostCandidates, challengerCandidates) ==
    IF tn.sourceType = "playlist" THEN playlistPlan(tn, hostCandidates)
    ELSE versusPlan(tn, hostCandidates, challengerCandidates)

\* The whole handler, fetching from Spotify what it lists for the two users.
StartWith(user) ==
    \E gate \in {startGate(status, tournament, user)} :
    \E plan \in {IF gate = "fetch"
                  THEN startPlan(tournament, spotify.host, spotify.challenger)
                  ELSE NoPlan} :
        /\ \A p \in DOMAIN h : h[p].pc = "idle"
        /\ IF plan.ok
           THEN /\ tournamentTracks' = plan.rows
                /\ tracks' = plan.bracketTracks
                /\ winners' = EmptyMap
                /\ completedAt' = FALSE
                /\ bracketRow' = TRUE
                /\ status' = "in_progress"
                /\ tournament' = [tournament EXCEPT !.bracketSize = plan.bracketSize]
           ELSE UNCHANGED <<tracks, winners, completedAt, bracketRow, status,
                            tournament, tournamentTracks>>
        /\ reply' = [op |-> "start", user |-> user,
                     result |-> IF gate = "noop" \/ plan.ok THEN "ok"
                                ELSE IF gate = "fetch" THEN "not_enough_tracks"
                                ELSE gate]
        /\ UNCHANGED <<h, oauth, spotify>>

-----------------------------------------------------------------------------
(* Start requests on a tournament that the requests before left in any of   *)
(* the states a start can meet; what Spotify lists for a user stays the      *)
(* same from one start to the next.                                          *)

\* bracketSize of a request body: a power of two from 8 to 64.
StartSizes == {n \in MinBracketSize..MaxBracketSize : isPowerOfTwo(n)}

\* The least and the greatest seed.
StartSeeds == {0, SeedModulus - 1}

\* The status the create, callback and settings handlers leave on a row.
rowStatus(tn) ==
    IF ~Truthy(tn.hostUserId) THEN "waiting_for_host"
    ELSE IF tn.sourceType = "playlist" THEN "ready"
    ELSE IF tn.sourceType = "playlist_vs"
    THEN IF /\ Truthy(tn.challengerUserId)
            /\ Truthy(tn.hostPlaylistId) /\ Truthy(tn.challengerPlaylistId)
         THEN "ready" ELSE "waiting_for_challenger"
    ELSE IF Truthy(tn.challengerUserId) THEN "ready" ELSE "waiting_for_challenger"

\* The rows before a start: inserted by POST /login (no host until the
\* callback) or by POST /tournaments (host u1), then with or without the
\* challenger u2, and for the playlist source types with or without playlists.
StartRows ==
    {tn \in [sourceType : SourceTypes, hostUserId : {Undefined, "u1"},
             challengerUserId : {Undefined, "u2"},
             hostPlaylistId : PlaylistIds \cup {Undefined},
             challengerPlaylistId : PlaylistIds \cup {Undefined},
             mood : {Undefined}, bracketSize : StartSizes, meshMode : {0, 1},
             seed : StartSeeds] :
        /\ Truthy(tn.challengerUserId) => Truthy(tn.hostUserId)
        /\ Truthy(tn.challengerPlaylistId) => Truthy(tn.challengerUserId)
        /\ tn.sourceType \in {"top_tracks", "mood"} =>
              ~Truthy(tn.hostPlaylistId) /\ ~Truthy(tn.challengerPlaylistId)
        /\ tn.sourceType = "playlist" => ~Truthy(tn.challengerUserId)}

\* What Spotify returns for the host: too few tracks for any bracket, too
\* few for a playlist bracket, 9 tracks with the first listed twice, 30 and
\* 33 tracks.
HostCandidateArgs ==
    {Window(1, n) : n \in {3, 7, 30, 33}}
        \cup {<<TrackId(1), TrackId(2), TrackId(1)>> \o Window(3, 7)}

\* For the challenger: 3 and 9 tracks the host has not, and 13 tracks of
\* which the first 8 are the host's 9th to 16th.
ChallengerCandidateArgs == {Window(31, 3), Window(31, 9), Window(9, 13)}

\* The lists of a user who is not attached are never fetched.
InitStart ==
    /\ tracks = <<>>
    /\ winners = EmptyMap
    /\ completedAt = FALSE
    /\ tournament \in StartRows
    /\ status = rowStatus(tournament)
    /\ reply = NoReply
    /\ h = [p \in Procs |-> IdleHandler]
    /\ bracketRow = FALSE
    /\ oauth = NoOauth
    /\ tournamentTracks = <<>>
    /\ spotify \in [host : IF Truthy(tournament.hostUserId)
                           THEN HostCandidateArgs ELSE {<<>>},
                    challenger : IF Truthy(tournament.challengerUserId)
                                 THEN ChallengerCandidateArgs ELSE {<<>>}]

NextStart == \E user \in SessionArgs : StartWith(user)

SpecStart == InitStart /\ [][NextStart]_vars

-----------------------------------------------------------------------------
(* Properties *)

Size == Len(tracks)

FinalKey == matchKey(totalRounds(Size) - 1, 0)

ReqKey(rp) == matchKey(rp.round, rp.match)

InBracket(r, m) == r < totalRounds(Size) /\ m < matchCount(Size, r)

FeederA(r, m) == matchKey(r - 1, 2 * m)

FeederB(r, m) == matchKey(r - 1, 2 * m + 1)

\* Both entrants of match (r, m) are known in the winners map w.
Ready(w, r, m) ==
    IF r = 0 THEN 2 * m + 1 < Size
    ELSE FeederA(r, m) \in DOMAIN w /\ FeederB(r, m) \in DOMAIN w

\* The entrants of a ready match (r, m).
Entrants(w, r, m) ==
    IF r = 0 THEN <<tracks[2 * m + 1], tracks[2 * m + 2]>>
    ELSE <<w[FeederA(r, m)], w[FeederB(r, m)]>>

NothingPersisted ==
    UNCHANGED <<tracks, winners, completedAt, status, tournament, bracketRow,
                tournamentTracks>>

\* One step of the sequential system, as C1 constrains it.
C1_Step ==
    /\ \A k \in DOMAIN winners : Lookup(winners', k) = winners[k]
    /\ (reply'.op = "vote" /\ ReqKey(reply') \in DOMAIN winners)
          => (reply'.result = "match_already_voted" /\ NothingPersisted)

\* C1: under vote requests served one after the other, a recorded winner is
\* never changed or removed, and a vote for a match that already has a winner
\* is answered match_already_voted and changes nothing, whichever id it names.
C1_WinnerImmutable == [][C1_Step]_vars

C1_Witness ==
    /\ reply.op = "vote"
    /\ reply.result = "match_already_voted"
    /\ Lookup(winners, ReqKey(reply)) \notin {Undefined, reply.winnerTrackId}

\* C2: of two vote handlers that have both finished with requests for the same
\* match, at most one has succeeded (the other was answered
\* match_already_voted), so neither overwrote the winner the other recorded.
C2_OneWriterWins ==
    \A p \in Procs, q \in Procs :
        (/\ p # q
         /\ h[p].pc = "done" /\ h[q].pc = "done"
         /\ h[p].round = h[q].round /\ h[p].match = h[q].match)
        => ~(h[p].result = "ok" /\ h[q].result = "ok")

\* C3: when two vote handlers for different matches have both finished with
\* success, the persisted winners map holds both their winners.
C3_NoLostVote ==
    \A p \in Procs, q \in Procs :
        (/\ p # q
         /\ h[p].pc = "done" /\ h[q].pc = "done"
         /\ h[p].result = "ok" /\ h[q].result = "ok"
         /\ ReqKey(h[p]) # ReqKey(h[q]))
        => (/\ Lookup(winners, ReqKey(h[p])) = h[p].winnerTrackId
            /\ Lookup(winners, ReqKey(h[q])) = h[q].winnerTrackId)

\* C4: in every persisted state the status is completed exactly when the
\* winners map holds the key of the final match.
C4_CompletedIffFinal == (status = "completed") <=> (FinalKey \in DOMAIN winners)

\* C5: every key of the winners map addresses a match of the bracket, its
\* value is one of the two participants resolveMatchParticipants yields for
\* that match, and for a round above 0 both feeder matches have winners.
C5_WinnersWellFormed ==
    \A k \in DOMAIN winners :
        \E rm \in BracketMatches(Size) :
            LET p == resolveMatchParticipants(Size, tracks, winners, rm[1], rm[2])
            IN  /\ k = matchKey(rm[1], rm[2])
                /\ p # Null
                /\ winners[k] \in {p[1], p[2]}
                /\ rm[1] > 0 => /\ FeederA(rm[1], rm[2]) \in DOMAIN winners
                                /\ FeederB(rm[1], rm[2]) \in DOMAIN winners

C5_Witness ==
    /\ FinalKey \in DOMAIN winners
    /\ reply.op = "vote" /\ reply.result = "ok" /\ ReqKey(reply) = FinalKey

\* C6: the match the state handler reports as next is undecided; and when some
\* undecided match of the bracket has resolvable participants, the reported
\* match is the least such match in (round, match) order, with the
\* participants resolveMatchParticipants gives for it.
C6_NextOpenLowest ==
    reply.op = "state" =>
        LET w == reply.winners
            next == reply.nextMatch
            Open == {rm \in BracketMatches(Size) :
                        /\ matchKey(rm[1], rm[2]) \notin DOMAIN w
                        /\ resolveMatchParticipants(Size, tracks, w, rm[1], rm[2]) # Null}
        IN  /\ next # Null => matchKey(next[1].round, next[1].match) \notin DOMAIN w
            /\ Open # {} =>
                 /\ next # Null
                 /\ <<next[1].round, next[1].match>> \in Open
                 /\ \A o \in Open :
                      \/ next[1].round < o[1]
                      \/ next[1].round = o[1] /\ next[1].match <= o[2]
                 /\ <<next[1].a, next[1].b>> =
                      resolveMatchParticipants(Size, tracks, w, next[1].round, next[1].match)

C6_Witness ==
    /\ reply.op = "state"
    /\ reply.nextMatch # Null
    /\ reply.nextMatch[1].round = 1
    /\ reply.nextMatch[1].match = 1

\* C7: after successful votes from an empty winners map, nextOpenMatch is null
\* exactly when the final match has a recorded winner.
C7_NoneIffChampion ==
    (nextOpenMatch(Size, tracks, winners) = Null) <=> (FinalKey \in DOMAIN winners)

C7_Witness ==
    /\ reply.op = "state"
    /\ reply.nextMatch = Null
    /\ reply.winnerTrackId # Undefined

\* C8: resolveMatchParticipants answers, for round 0, the slots 2m and 2m+1
\* when both exist and null otherwise; for a round above 0, the recorded
\* winners of the two feeder matches when both are recorded and null otherwise.
C8_ResolveDefined ==
    reply.op = "resolve" =>
        reply.participants =
            IF Ready(winners, reply.round, reply.match)
            THEN Entrants(winners, reply.round, reply.match)
            ELSE Null

C8_Witness ==
    /\ winners = EmptyMap
    /\ reply.op = "resolve"
    /\ reply.round = 1 /\ reply.match = 0
    /\ reply.participants = Null

\* One step of the sequential system, as C9 constrains it.
C9_Step ==
    (/\ reply'.op = "vote"
     /\ reply'.round > 0
     /\ InBracket(reply'.round, reply'.match)
     /\ ReqKey(reply') \notin DOMAIN winners
     /\ ~Ready(winners, reply'.round, reply'.match))
    => (reply'.result = "match_not_ready" /\ NothingPersisted)

\* C9: a vote for an in-range, undecided match of a round above 0 with a
\* feeder match that has no winner is answered match_not_ready and changes
\* nothing, whatever winner it names.
C9_NotReadyRejected == [][C9_Step]_vars

C9_Witness ==
    /\ reply.op = "vote"
    /\ reply.result = "match_not_ready"
    /\ FeederA(reply.round, reply.match) \in DOMAIN winners
    /\ reply.winnerTrackId = winners[FeederA(reply.round, reply.match)]

\* One step of the sequential system, as C10 constrains it.
C10_Step ==
    /\ (/\ reply'.op = "vote"
        /\ InBracket(reply'.round, reply'.match)
        /\ ReqKey(reply') \notin DOMAIN winners
        /\ Ready(winners, reply'.round, reply'.match)
        /\ reply'.winnerTrackId # Entrants(winners, reply'.round, reply'.match)[1]
        /\ reply'.winnerTrackId # Entrants(winners, reply'.round, reply'.match)[2])
       => (reply'.result = "winner_not_in_match" /\ NothingPersisted)
    /\ winners' # winners
       => /\ reply'.op = "vote"
          /\ DOMAIN winners' = (DOMAIN winners) \cup {ReqKey(reply')}
          /\ Ready(winners, reply'.round, reply'.match)
          /\ winners'[ReqKey(reply')] \in
                {Entrants(winners, reply'.round, reply'.match)[1],
                 Entrants(winners, reply'.round, reply'.match)[2]}

\* C10: a vote for a ready, undecided match that names neither of its two
\* participants is answered winner_not_in_match and changes nothing; and
\* whatever a vote stores under a key is a participant of that match.
C10_WinnerMustPlay == [][C10_Step]_vars

C10_Witness ==
    /\ reply.op = "vote"
    /\ reply.result = "winner_not_in_match"
    /\ reply.round > 0
    /\ \E i \in 1..Size : tracks[i] = reply.winnerTrackId

C11_Step ==
    reply'.op = "vote" =>
        /\ reply'.round >= totalRounds(Size) =>
               (reply'.result = "invalid_round" /\ NothingPersisted)
        /\ (/\ reply'.round < totalRounds(Size)
            /\ reply'.match >= matchCount(Size, reply'.round)) =>
               (reply'.result = "invalid_match" /\ NothingPersisted)

\* C11: a vote whose round index is at or past the number of rounds is answered
\* invalid_round, and one whose round is valid but whose match index is at or
\* past that round's match count is answered invalid_match, whatever the
\* state of the match's feeders and whatever id it names; nothing is persisted.
C11_IndexChecksFirst == [][C11_Step]_vars

\* An invalid_match answer, after some vote was recorded, to a request for the
\* first match index past round 1 that names a track of the bracket.
C11_Witness ==
    /\ reply.op = "vote"
    /\ reply.result = "invalid_match"
    /\ reply.round = 1
    /\ reply.match = matchCount(Size, 1)
    /\ reply.winnerTrackId = At(tracks, 0)
    /\ winners # EmptyMap

\* The entrant of the decided match (r, m) that is not its recorded winner.
Loser(w, r, m) ==
    LET e == Entrants(w, r, m)
    IN  IF w[matchKey(r, m)] = e[1] THEN e[2] ELSE e[1]

FullyDecided == DOMAIN winners = {matchKey(rm[1], rm[2]) : rm \in BracketMatches(Size)}

\* C12: the ranking the results handler answers for a fully decided bracket
\* reached by successful votes has exactly as many entries as the bracket has
\* slots, no entry twice, the same ids as the slot list, the final's winner
\* first and the final's loser second.
C12_RankingIsPermutation ==
    (reply.op = "results" /\ FullyDecided) =>
        /\ reply.result = "ok"
        /\ Len(reply.ranking) = Size
        /\ \A i, j \in 1..Len(reply.ranking) :
               reply.ranking[i] = reply.ranking[j] => i = j
        /\ {reply.ranking[i] : i \in 1..Len(reply.ranking)}
               = {tracks[i] : i \in 1..Size}
        /\ reply.ranking[1] = winners[FinalKey]
        /\ reply.ranking[2] = Loser(winners, totalRounds(Size) - 1, 0)

\* A ranking answered for a bracket whose champion is the last slot and whose
\* runner-up is a second entrant of round 0.
C12_Witness ==
    /\ reply.op = "results"
    /\ FullyDecided
    /\ reply.result = "ok"
    /\ winners[FinalKey] = tracks[Size]
    /\ Loser(winners, totalRounds(Size) - 1, 0) = tracks[2]

\* The outcome of the size-8 example: round 0 won by a, d, e, h, round 1 by
\* a, h, the final by a.
ExampleWinners ==
    (matchKey(0, 0) :> "a") @@ (matchKey(0, 1) :> "d") @@ (matchKey(0, 2) :> "e")
    @@ (matchKey(0, 3) :> "h") @@ (matchKey(1, 0) :> "a") @@ (matchKey(1, 1) :> "h")
    @@ (matchKey(2, 0) :> "a")

\* C13: in an answered ranking the champion is first and the loser of match m
\* of round r stands at 0-based position matchCount(r) + m: the runner-up,
\* then the losers of the round before the final, ... , last the losers of
\* round 0, by ascending match index within a round; for the example outcome
\* on slots a..h the ranking is a, h, d, e, b, c, f, g.
C13_RankingOrder ==
    (reply.op = "results" /\ reply.result = "ok") =>
        /\ reply.ranking[1] = winners[FinalKey]
        /\ \A rm \in BracketMatches(Size) :
               reply.ranking[matchCount(Size, rm[1]) + rm[2] + 1]
                   = Loser(winners, rm[1], rm[2])
        /\ (tracks = SlotList /\ winners = ExampleWinners) =>
               reply.ranking = <<"a", "h", "d", "e", "b", "c", "f", "g">>

C13_Witness ==
    /\ reply.op = "results"
    /\ reply.result = "ok"
    /\ tracks = SlotList
    /\ winners = ExampleWinners

\* C14: in every state reached by votes computeRanking is non-null exactly
\* when the final has a recorded winner, and the results handler answers
\* tournament_not_completed exactly when it has none.
C14_RankingIffChampion ==
    /\ (computeRanking(Size, tracks, winners) # Null) <=> (FinalKey \in DOMAIN winners)
    /\ reply.op = "results" =>
           /\ (reply.result = "tournament_not_completed") <=> (FinalKey \notin DOMAIN winners)
           /\ (reply.ranking = Null) <=> (FinalKey \notin DOMAIN winners)

\* Both answers occur: a ranking once the final is decided ...
C14_Witness ==
    /\ reply.op = "results"
    /\ reply.result = "ok"
    /\ FinalKey \in DOMAIN winners

\* ... and a refusal one vote before that.
C14_WitnessRefused ==
    /\ reply.op = "results"
    /\ reply.result = "tournament_not_completed"
    /\ Cardinality(DOMAIN winners) = Size - 2

\* Some match before the final has no recorded winner or no resolvable pair.
InconsistentBracket ==
    \E rm \in BracketMatches(Size) :
        /\ rm[1] < totalRounds(Size) - 1
        /\ \/ matchKey(rm[1], rm[2]) \notin DOMAIN winners
           \/ resolveMatchParticipants(Size, tracks, winners, rm[1], rm[2]) = Null

\* C15: for a winners map that holds the final's winner while an earlier match
\* has no winner or no resolvable participants, the results handler answers
\* neither a ranking nor the not-yet-completed outcome but a distinct error.
C15_InconsistentIsDistinct ==
    (reply.op = "results" /\ FinalKey \in DOMAIN winners /\ InconsistentBracket) =>
        /\ reply.result # "ok"
        /\ reply.result # "tournament_not_completed"

\* The bracket sizes in use: 2, 4, ..., up to the largest size called.
RECURSIVE HalvesToOne(_)
HalvesToOne(n) == n = 1 \/ (n > 1 /\ n % 2 = 0 /\ HalvesToOne(n \div 2))

PowerOfTwoSizes == {n \in 2..(MaxBracketSize + SizeMargin) : HalvesToOne(n)}

RECURSIVE SumMatchCounts(_, _)
SumMatchCounts(size, r) ==
    IF r < 0 THEN 0 ELSE matchCount(size, r) + SumMatchCounts(size, r - 1)

\* C16: for every power-of-two size from 2 on, totalRounds returns the r with
\* 2^r = size, matchCount(size, round) is size / 2^(round+1) for every round
\* below that, the match counts of all rounds add up to size - 1, and the
\* last round has exactly one match.
C16_BracketShape ==
    /\ (reply.op = "totalRounds" /\ reply.size \in PowerOfTwoSizes) =>
           /\ ~reply.outcome.threw
           /\ Pow2(reply.outcome.value[1]) = reply.size
           /\ SumMatchCounts(reply.size, reply.outcome.value[1] - 1) = reply.size - 1
           /\ matchCount(reply.size, reply.outcome.value[1] - 1) = 1
    /\ (/\ reply.op = "matchCount" /\ reply.size \in PowerOfTwoSizes
        /\ Pow2(reply.round + 1) <= reply.size) =>
           reply.value * Pow2(reply.round + 1) = reply.size

\* The calls for the largest size: its round count, and the match count of
\* its last round.
C16_Witness ==
    /\ reply.op = "matchCount"
    /\ reply.size = MaxBracketSize
    /\ Pow2(reply.round + 1) = reply.size
    /\ reply.value = 1

C16_WitnessRounds ==
    /\ reply.op = "totalRounds"
    /\ reply.size = MaxBracketSize
    /\ ~reply.outcome.threw

\* C17: totalRounds, nextOpenMatch, bracketWinner and computeRanking throw for
\* every size that is not a positive power of two: 0, a negative size, 3, 6,
\* 12, ...; none of them returns a value for such a size.
C17_BadSizeThrows ==
    (/\ reply.op \in {"totalRounds", "nextOpenMatch", "bracketWinner", "computeRanking"}
     /\ reply.size \notin PowerOfTwoSizes /\ reply.size # 1) =>
        reply.outcome.threw

C17_Witness ==
    /\ reply.op = "computeRanking"
    /\ reply.size = 12
    /\ reply.outcome.threw

\* A start request by the host or the challenger of a started tournament.
C18_Step ==
    (/\ reply'.op = "start" /\ Started
     /\ reply'.user \in {tournament.hostUserId, tournament.challengerUserId}) =>
        /\ reply'.result = "ok"
        /\ UNCHANGED <<tracks, winners, completedAt, status, bracketRow, tournamentTracks, spotify>>

\* C18: a start request on a tournament that is in_progress or completed
\* answers ok and leaves the slot list, the winners map and the status as they
\* were, whatever the tournament's source type.
C18_StartIdempotent == [][C18_Step]_vars

\* C19: a settings request on a tournament that is in_progress or completed
\* leaves the status as it was, on either server and for every source type.
C19_SettingsKeepStatus ==
    [][(reply'.op = "settings" /\ Started) => status' = status]_vars

StatusOrder ==
    <<"waiting_for_host", "waiting_for_challenger", "ready", "in_progress", "completed">>

\* The position of a status in the order; 0 before the tournament exists.
StatusRank(st) ==
    IF st = Undefined THEN 0 ELSE CHOOSE i \in 1..Len(StatusOrder) : StatusOrder[i] = st

\* C20: no request moves the status of a tournament backward in the order
\* waiting_for_host, waiting_for_challenger, ready, in_progress, completed.
C20_StatusNeverBackward == [][StatusRank(status') >= StatusRank(status)]_vars

\* A vote request, as C21 constrains it.
C21_Step ==
    reply'.op = "vote" =>
        /\ ~bracketRow => (reply'.result = "bracket_not_started" /\ NothingPersisted)
        /\ status # "in_progress" => (reply'.result # "ok" /\ NothingPersisted)

\* C21: a vote is accepted only while the status is in_progress: before the
\* start it is answered bracket_not_started, in every other status it is
\* rejected, and a rejected vote leaves winners, slot list and status alone.
C21_VoteOnlyInProgress == [][C21_Step]_vars

\* A challenger login or callback on a tournament that has a challenger.
C22_Step ==
    (/\ reply'.op \in {"login", "callback"}
     /\ reply'.role = "challenger"
     /\ Truthy(tournament.challengerUserId)) =>
        /\ reply'.result # "ok"
        /\ tournament'.challengerUserId = tournament.challengerUserId
        /\ status' = status

\* C22: once a challenger is attached, every later challenger join is
\* rejected and changes neither challengerUserId nor the status, also when
\* two challenger logins were begun before either callback arrived.
C22_SecondChallengerRejected == [][C22_Step]_vars

\* The columns of the tournaments row a start of the source type requires.
RequiredOf(sourceType) ==
    IF sourceType = "playlist" THEN {"hostUserId", "hostPlaylistId"}
    ELSE IF sourceType = "playlist_vs"
         THEN {"hostUserId", "challengerUserId", "hostPlaylistId", "challengerPlaylistId"}
    ELSE {"hostUserId", "challengerUserId"}

\* C23: in every state whose status is ready the tournament has all its
\* source type requires: host and challenger (top_tracks, mood), these and
\* both playlists (playlist_vs), host and host playlist (playlist).
C23_ReadyHasResources ==
    status = "ready" =>
        \A column \in RequiredOf(tournament.sourceType) : Truthy(tournament[column])

\* How often id occurs in the sequence.
Occurrences(seq, id) == Cardinality({i \in DOMAIN seq : seq[i] = id})

\* C30: for every array and seed, seededShuffle returns an array of the same
\* length holding every element as often as the input does, leaves the input
\* array as it was, and every index j it draws for position i is in 0..i.
C30_ShuffleIsPermutation ==
    reply.op = "seededShuffle" =>
        /\ Len(reply.out) = Len(reply.given)
        /\ \A i \in DOMAIN reply.given :
              Occurrences(reply.out, reply.given[i])
                  = Occurrences(reply.given, reply.given[i])
        /\ reply.arr = reply.given
        /\ \A d \in DOMAIN reply.draws :
              0 <= reply.draws[d].j /\ reply.draws[d].j <= reply.draws[d].i

\* A shuffle of the longest array, which holds one id twice, that moved the
\* last element and drew an index for every position above 0.
C30_Witness ==
    /\ reply.op = "seededShuffle"
    /\ reply.given = ShuffleBase
    /\ reply.out[Len(ShuffleBase)] # ShuffleBase[Len(ShuffleBase)]
    /\ Len(reply.draws) = Len(ShuffleBase) - 1

\* The ids of a list.
Ids(seq) == {seq[i] : i \in DOMAIN seq}

\* The list holds p distinct ids for the host, and the challenger's list p
\* more that are not among the first p of the host.
Obtainable(p, hostCandidates, challengerCandidates) ==
    LET hostFirst == SubSeq(uniqueById(hostCandidates), 1, p)
    IN  /\ Cardinality(Ids(hostCandidates)) >= p
        /\ Cardinality(Ids(challengerCandidates) \ Ids(hostFirst)) >= p

\* No bracket of MinBracketSize slots can be drawn from Spotify's lists.
CannotSize(tn) ==
    IF tn.sourceType = "playlist" THEN Cardinality(Ids(spotify.host)) < MinBracketSize
    ELSE ~Obtainable(MinBracketSize \div 2, spotify.host, spotify.challenger)

IdentityColumns == {"hostUserId", "challengerUserId"}

PlaylistColumns == {"hostPlaylistId", "challengerPlaylistId"}

\* A column of the set that the source type requires and the row lacks.
Lacks(tn, columns) ==
    \E column \in RequiredOf(tn.sourceType) \cap columns : ~Truthy(tn[column])

\* A start request of a caller the handler lets pass: anyone for a playlist
\* tournament, otherwise a signed-in user who, once the tournament has a
\* host, is its host or its challenger.
C24_Caller ==
    \/ tournament.sourceType = "playlist"
    \/ /\ reply'.user # Undefined
       /\ Truthy(tournament.hostUserId) =>
             reply'.user \in {tournament.hostUserId, tournament.challengerUserId}

C24_Step ==
    (reply'.op = "start" /\ C24_Caller) =>
        /\ Lacks(tournament, IdentityColumns) => reply'.result = "tournament_not_ready"
        /\ (/\ ~Lacks(tournament, IdentityColumns) /\ ~Started
            /\ Lacks(tournament, PlaylistColumns)) =>
              reply'.result = "playlist_not_selected"
        /\ (/\ ~Lacks(tournament, IdentityColumns)
            /\ ~Lacks(tournament, PlaylistColumns)
            /\ ~(Started /\ tournament.sourceType \in {"playlist", "playlist_vs"})
            /\ CannotSize(tournament)) =>
              reply'.result = "not_enough_tracks"
        /\ reply'.result \in {"tournament_not_ready", "playlist_not_selected",
                              "not_enough_tracks"} => NothingPersisted

\* C24: a start fails with tournament_not_ready when the host (in the
\* two-source types: or the challenger) is missing, with
\* playlist_not_selected when a required playlist is missing, with
\* not_enough_tracks when no bracket of 8 slots can be drawn; every such
\* failure leaves the tournament's tracks, bracket, bracketSize and status
\* as they were.
C24_StartFailures == [][C24_Step]_vars

\* A playlist_vs start that found too few tracks for the 32 slots asked for.
C24_Witness ==
    /\ reply.op = "start"
    /\ reply.result = "not_enough_tracks"
    /\ tournament.sourceType = "playlist_vs"
    /\ tournament.bracketSize = 32
    /\ ~bracketRow

\* A start request that wrote a bracket.
Materialized ==
    /\ reply'.op = "start"
    /\ reply'.result = "ok"
    /\ startGate(status, tournament, reply'.user) = "fetch"

C25_Step ==
    Materialized =>
        /\ bracketRow'
        /\ Len(tracks') \in PowerOfTwoSizes
        /\ Len(tracks') >= MinBracketSize
        /\ Cardinality(Ids(tracks')) = Len(tracks')
        /\ winners' = EmptyMap
        /\ status' = "in_progress"
        /\ tournament'.bracketSize = Len(tracks')

\* C25: after every start that writes a bracket the slot list has a length
\* that is a power of two and at least 8, its ids are pairwise distinct, the
\* winners map is empty, the status is in_progress and the tournament's
\* bracketSize is the length of the slot list.
C25_AfterStart == [][C25_Step]_vars

\* A meshed bracket of 16 slots written for a tournament that asked for 64.
C25_Witness ==
    /\ reply.op = "start"
    /\ reply.result = "ok"
    /\ bracketRow
    /\ Len(tracks) = 16
    /\ tournament.meshMode = 1
    /\ Len(spotify.host) = 30

\* The largest power of two that is at most n; 0 for n = 0.
FloorPow2(n) ==
    IF n <= 0 THEN 0
    ELSE CHOOSE p \in {1} \cup PowerOfTwoSizes : p <= n /\ n < 2 * p

\* The distinct ids of the list in the order of their first occurrence.
RECURSIVE Distinct(_)
Distinct(seq) ==
    IF seq = <<>> THEN <<>>
    ELSE LET front == Distinct(SubSeq(seq, 1, Len(seq) - 1))
             last == seq[Len(seq)]
         IN  IF \E i \in DOMAIN front : front[i] = last THEN front
             ELSE Append(front, last)

\* The first k distinct ids of the list.
FirstDistinct(seq, k) ==
    LET distinct == Distinct(seq)
    IN  {distinct[i] : i \in 1..Min(k, Len(distinct))}

\* The k-th distinct id of the list, in the order of the list.
KthDistinct(seq, k) == Distinct(seq)[k]

\* A start request of a playlist tournament that reaches the sizing.
C26_Step ==
    (/\ reply'.op = "start"
     /\ tournament.sourceType = "playlist"
     /\ startGate(status, tournament, reply'.user) = "fetch") =>
        LET n == Cardinality(Ids(spotify.host))
            size == Min(tournament.bracketSize, FloorPow2(n))
        IN  /\ reply'.result = "not_enough_tracks" <=> size < MinBracketSize
            /\ reply'.result \in {"not_enough_tracks", "ok"}
            /\ reply'.result = "ok" =>
                  /\ Len(tracks') = size
                  /\ tournament'.bracketSize = size
                  /\ Ids(tracks') = FirstDistinct(spotify.host, size)
                  /\ Cardinality(Ids(tracks')) = size
                  /\ Len(tournamentTracks') = size
                  /\ \A k \in 1..size :
                        tournamentTracks'[k].trackId = KthDistinct(spotify.host, k)

\* C26: a playlist start on a list of n distinct ids with configured size c
\* takes min(c, 2^floor(log2 n)) slots, fails with not_enough_tracks exactly
\* when that is below 8, and otherwise stores the first that many distinct
\* ids of the list, in its order, as the tournament's tracks and a
\* permutation of them as the slot list.
C26_PlaylistSizing == [][C26_Step]_vars

\* A start on the list of 9 ids that names the first id twice, with 16 slots
\* asked for: it wrote 8 slots in another order than the list's.
C26_Witness ==
    /\ reply.op = "start"
    /\ reply.result = "ok"
    /\ tournament.sourceType = "playlist"
    /\ Len(spotify.host) = 10
    /\ Len(tracks) = MinBracketSize
    /\ tracks # Window(1, MinBracketSize)
    /\ Ids(tracks) = Ids(Window(1, MinBracketSize))

\* How many tracks each side gets when it draws up to p: the host from its
\* distinct ids, the challenger from its ids outside the host's draw.
HostDraw(p) == Min(p, Cardinality(Ids(spotify.host)))

ChallengerDraw(p) ==
    Min(p, Cardinality(Ids(spotify.challenger) \ FirstDistinct(spotify.host, p)))

DrawFloor(p) == FloorPow2(Min(HostDraw(p), ChallengerDraw(p)))

\* The per-side size the retry rule settles on from p; 0 where it fails.
RECURSIVE Settle(_)
Settle(p) ==
    IF DrawFloor(p) < 4 THEN 0
    ELSE IF DrawFloor(p) = p THEN p
    ELSE Settle(DrawFloor(p))

\* The challenger's distinct ids outside the host's first p, in the
\* challenger's order.
Unclaimed(p) ==
    LET claimed == FirstDistinct(spotify.host, p)
        distinct == Distinct(spotify.challenger)
    IN  SelectSeq(distinct, LAMBDA id : id \notin claimed)

\* A start request of a two-source tournament that reaches the sizing.
C27_Step ==
    (/\ reply'.op = "start"
     /\ tournament.sourceType # "playlist"
     /\ startGate(status, tournament, reply'.user) = "fetch") =>
        LET c == tournament.bracketSize
            perSide == tournament'.bracketSize \div 2
            rows == tournamentTracks'
            hostDistinct == Distinct(spotify.host)
            unclaimed == Unclaimed(perSide)
        IN  /\ reply'.result = "not_enough_tracks" <=> Settle(c \div 2) = 0
            /\ reply'.result \in {"not_enough_tracks", "ok"}
            /\ reply'.result = "ok" =>
                  /\ perSide = Settle(c \div 2)
                  /\ perSide \in PowerOfTwoSizes /\ perSide >= 4
                  /\ tournament'.bracketSize = 2 * perSide
                  /\ Len(tracks') = 2 * perSide
                  /\ Len(rows) = 2 * perSide
                  /\ \A k \in 1..perSide :
                        /\ rows[k].ownerUserId = tournament.hostUserId
                        /\ rows[k].trackId = hostDistinct[k]
                        /\ rows[perSide + k].ownerUserId = tournament.challengerUserId
                        /\ rows[perSide + k].trackId = unclaimed[k]
                  /\ Ids(tracks') = {rows[k].trackId : k \in DOMAIN rows}
                  /\ Cardinality(Ids(tracks')) = 2 * perSide
            /\ (/\ c = 32
                /\ Cardinality(Ids(spotify.host)) = 30
                /\ Cardinality(Ids(spotify.challenger)) = 9
                /\ Ids(spotify.host) \cap Ids(spotify.challenger) = {}) =>
                  (reply'.result = "ok" /\ perSide = 8 /\ tournament'.bracketSize = 16)

LoopRun(c) == sizingLoop(c \div 2, spotify.host, spotify.challenger, <<>>)

\* C28: for every pair of lists and every configured size the sizing loop
\* ends: every retry runs with a strictly smaller perSide, namely the
\* rounded draw of the pass before, and the last pass either accepts (its
\* rounded draw equals perSide) or fails (its rounded draw is below 4).
C28_LoopTerminates ==
    \A c \in StartSizes :
        LET run == LoopRun(c)
            last == run.tried[Len(run.tried)]
        IN  /\ run.tried[1] = c \div 2
            /\ \A i \in 1..(Len(run.tried) - 1) :
                  /\ run.tried[i + 1] < run.tried[i]
                  /\ run.tried[i + 1] = DrawFloor(run.tried[i])
                  /\ run.tried[i + 1] >= 4
            /\ run.ok => (DrawFloor(last) = last /\ run.perUser = last)
            /\ ~run.ok => DrawFloor(last) < 4

\* A start that wrote the bracket its second pass accepted: 16 per side were
\* asked for, 8 taken.
C28_Witness ==
    /\ reply.op = "start"
    /\ reply.result = "ok"
    /\ LoopRun(32).tried = <<16, 8>>
    /\ Len(tournamentTracks) = 16
    /\ tournament.sourceType = "top_tracks"

\* The per-side sizes sizing may settle on for configured size c.
PerSideSizes(c) == {p \in PowerOfTwoSizes : 4 <= p /\ p <= c \div 2}

\* A start request of a two-source tournament that reaches the sizing, as
\* C29 constrains it.
C29_Step ==
    (/\ reply'.op = "start"
     /\ tournament.sourceType # "playlist"
     /\ startGate(status, tournament, reply'.user) = "fetch") =>
        \A p \in PerSideSizes(tournament.bracketSize) :
            Obtainable(p, spotify.host, spotify.challenger) =>
                /\ reply'.result = "ok"
                /\ tournament'.bracketSize >= 2 * p

\* C29: two-source sizing takes the largest power-of-two bracket that can
\* be drawn: no per-side power of two within floor(c/2) that both sides can
\* draw (the host first, the challenger from the ids the host did not claim)
\* is larger than the perSide accepted, and none can be drawn when it fails.
C29_LargestObtainable == [][C29_Step]_vars

\* A start that runs again on a tournament whose bracket an earlier start
\* wrote: the candidates, the seed and the mesh flag are those of the earlier
\* start, and the configured size is the size that start wrote.
C31_Step ==
    (/\ Materialized
     /\ bracketRow
     /\ tournament.bracketSize = Len(tracks)) =>
        tracks' = tracks

SlotColumns == <<tracks, bracketRow, tournament, tournamentTracks>>

C32_Step ==
    /\ reply'.op \in {"vote", "state", "results"} =>
          /\ SlotColumns' = SlotColumns
          /\ Len(tracks') = Len(tracks)
    /\ (reply'.op = "vote" /\ reply'.result # "ok") =>
          <<winners, completedAt, status>>' = <<winners, completedAt, status>>
    /\ reply'.op \in {"state", "results"} =>
          <<winners, completedAt, status>>' = <<winners, completedAt, status>>

\* C32: a vote, accepted or rejected, and a read of the state or of the
\* results leave the slot list, and so the size, as they were; an accepted
\* vote changes the winners map, completedAt and the status only, a rejected
\* vote and a read change nothing.
C32_SlotsFixed == [][C32_Step]_vars

\* An accepted vote of a later round has been served on the slot list of the
\* start.
C32_Witness ==
    /\ reply.op = "vote"
    /\ reply.result = "ok"
    /\ reply.round > 0
    /\ tracks = SlotList
    /\ Cardinality(DOMAIN winners) >= 3

\* The ids of the track rows inserted for one owner.
OwnedIds(rows, ownerUserId) ==
    {rows[i].trackId : i \in {j \in DOMAIN rows : rows[j].ownerUserId = ownerUserId}}

C33_Step ==
    (Materialized /\ tournament.sourceType # "playlist") =>
        LET perSide == Len(tracks') \div 2
            hostPicked == OwnedIds(tournamentTracks', tournament.hostUserId)
            challengerPicked == OwnedIds(tournamentTracks', tournament.challengerUserId)
        IN  /\ Cardinality(hostPicked) = perSide
            /\ Cardinality(challengerPicked) = perSide
            /\ hostPicked \cap challengerPicked = {}
            /\ tournament.meshMode = 0 =>
                  /\ \A i \in 0..(perSide - 1) :
                        /\ At(tracks', 2 * i) \in hostPicked
                        /\ At(tracks', 2 * i + 1) \in challengerPicked
                  /\ \A m \in 0..(matchCount(Len(tracks'), 0) - 1) :
                        LET p == resolveMatchParticipants(Len(tracks'), tracks',
                                                          winners', 0, m)
                        IN  p # Null /\ p[1] \in hostPicked /\ p[2] \in challengerPicked
            /\ tournament.meshMode # 0 =>
                  /\ Len(tracks') = 2 * perSide
                  /\ Ids(tracks') = hostPicked \cup challengerPicked
                  /\ Cardinality(Ids(tracks')) = Len(tracks')

\* C33: a two-source start without mesh puts a track picked from the host in
\* every slot 2i and a track picked from the challenger in every slot 2i+1
\* (i < perSide), so every match of round 0 has one of each; with mesh the
\* slot list is a permutation of the 2*perSide ids picked.
C33_SidesAlternate == [][C33_Step]_vars

\* With mesh a bracket was written in which two tracks of the host meet in
\* round 0; without mesh, one of 16 slots.
C33_WitnessMesh ==
    /\ reply.op = "start" /\ reply.result = "ok" /\ bracketRow
    /\ tournament.sourceType # "playlist"
    /\ tournament.meshMode = 1
    /\ \E m \in 0..(matchCount(Len(tracks), 0) - 1) :
          {At(tracks, 2 * m), At(tracks, 2 * m + 1)}
              \subseteq OwnedIds(tournamentTracks, tournament.hostUserId)

C33_Witness ==
    /\ reply.op = "start" /\ reply.result = "ok" /\ bracketRow
    /\ tournament.sourceType # "playlist"
    /\ tournament.meshMode = 0
    /\ Len(tracks) = 16
    /\ At(tracks, 0) # At(spotify.host, 0)

\* The tracks seeded in the slots that lead to match (r, m).
SeededInto(r, m) ==
    {At(tracks, i) : i \in (m * Pow2(r + 1))..((m + 1) * Pow2(r + 1) - 1)}

\* The decided matches of the bracket.
Decided == {rm \in BracketMatches(Size) : matchKey(rm[1], rm[2]) \in DOMAIN winners}

\* The decided matches that the track lost.
LostBy(id) == {rm \in Decided : Loser(winners, rm[1], rm[2]) = id}

\* C34: the recorded winner of match (r, m) is one of the tracks seeded in
\* slots m*2^(r+1) .. (m+1)*2^(r+1)-1; no track is the recorded winner of two
\* matches of one round; every track has lost at most one match and the
\* champion none.
C34_WinnerFromOwnSlots ==
    /\ \A rm \in Decided :
          winners[matchKey(rm[1], rm[2])] \in SeededInto(rm[1], rm[2])
    /\ \A rm \in Decided, other \in Decided :
          (rm[1] = other[1] /\ rm[2] # other[2]) =>
              winners[matchKey(rm[1], rm[2])] # winners[matchKey(other[1], other[2])]
    /\ \A id \in Ids(tracks) : Cardinality(LostBy(id)) <= 1
    /\ FinalKey \in DOMAIN winners => LostBy(winners[FinalKey]) = {}

\* The bracket is decided, the champion comes from the second half of the
\* slots and each of the seven other tracks has lost a match.
C34_Witness ==
    /\ FinalKey \in DOMAIN winners
    /\ winners[FinalKey] \in SeededInto(1, 1)
    /\ Cardinality({id \in Ids(tracks) : LostBy(id) # {}}) = Size - 1

\* The vote request served is the one the duel page sends in this state.
PageVote ==
    LET next == nextOpenMatch(Size, tracks, winners)
    IN  /\ reply'.op = "vote"
        /\ next # Null
        /\ reply'.round = next[1].round
        /\ reply'.match = next[1].match
        /\ reply'.winnerTrackId \in {next[1].a, next[1].b}

C35_Step ==
    /\ PageVote => reply'.result = "ok"
    /\ (reply'.op = "vote" /\ reply'.result = "ok") =>
          /\ status # "completed"
          /\ Cardinality(DOMAIN winners') = Cardinality(DOMAIN winners) + 1

C35_Counts ==
    /\ Cardinality(DOMAIN winners) <= Size - 1
    /\ (status = "completed") <=> (Cardinality(DOMAIN winners) = Size - 1)
    /\ status # "completed" => nextOpenMatch(Size, tracks, winners) # Null

\* C35: in every state of a bracket of N slots that is not completed the
\* duel page has a match to show, and a vote for either of its two tracks
\* succeeds; every successful vote adds one key to the winners map, which
\* never holds more than N-1 keys and holds N-1 exactly when the status is
\* completed; no vote succeeds after that; and a page that keeps voting
\* reaches completed.
C35_PlayCompletes ==
    /\ [][C35_Step]_vars
    /\ []C35_Counts
    /\ <>(status = "completed")

\* The vote for the final has been accepted as the seventh.
C35_Witness ==
    /\ status = "completed"
    /\ reply.op = "vote" /\ reply.result = "ok" /\ ReqKey(reply) = FinalKey
    /\ Cardinality(DOMAIN winners) = Size - 1

\* A state the page meets after requests that were not its own: match 1 of
\* round 1 has a winner while match 0 of round 0 is open.
C35_WitnessOutOfTurn ==
    /\ matchKey(1, 1) \in DOMAIN winners
    /\ matchKey(0, 0) \notin DOMAIN winners
    /\ nextOpenMatch(Size, tracks, winners) # Null

\* The vote requests the handler would accept in this state: a match and one
\* of its two tracks.
Acceptable(w) ==
    {v \in BracketMatches(Size) \X Ids(tracks) :
        voteChecks(tracks, w, v[1][1], v[1][2], v[2]) = "ok"}

\* The handler serving v on the map in served: <<the map written>>, and <<>>
\* once a request was rejected.
Served(served, v) ==
    IF served = <<>> THEN <<>>
    ELSE IF voteChecks(tracks, served[1], v[1][1], v[1][2], v[2]) # "ok" THEN <<>>
    ELSE <<voteWinners(served[1], v[1][1], v[1][2], v[2])>>

\* The decisions of the map w served in the order of the duel page, from
\* the map in acc on.
RECURSIVE Replayed(_, _)
Replayed(w, acc) ==
    IF acc = <<>> THEN <<>>
    ELSE LET next == nextOpenMatch(Size, tracks, acc[1])
         IN  IF next = Null THEN acc
             ELSE LET key == matchKey(next[1].round, next[1].match)
                  IN  IF key \notin DOMAIN w THEN acc
                      ELSE Replayed(w, Served(acc, <<<<next[1].round, next[1].match>>,
                                                     w[key]>>))

\* C36: two vote requests for different matches that the handler would both
\* accept in a state are both accepted when served one after the other, in
\* either order, and leave the same winners map, with the same answer to
\* whether the bracket is decided; and the map of a decided bracket,
\* whatever the order of its votes was, is the map the same decisions give
\* when served in the order of the duel page, so it has the same ranking.
C36_VotesCommute ==
    bracketRow =>
        /\ \A v1 \in Acceptable(winners), v2 \in Acceptable(winners) :
              v1[1] # v2[1] =>
                  LET first == Served(Served(<<winners>>, v1), v2)
                      second == Served(Served(<<winners>>, v2), v1)
                  IN  /\ first # <<>>
                      /\ first = second
                      /\ voteFinalWinner(tracks, first[1])
                            = voteFinalWinner(tracks, second[1])
        /\ FullyDecided =>
              LET replayed == Replayed(winners, <<EmptyMap>>)
              IN  /\ replayed = <<winners>>
                  /\ computeRanking(Size, tracks, replayed[1])
                        = computeRanking(Size, tracks, winners)

\* Round 1 has a match that is ready while two matches of round 0 are open:
\* votes of different rounds and of the same round can be swapped.
C36_Witness ==
    /\ bracketRow
    /\ \E v1 \in Acceptable(winners), v2 \in Acceptable(winners) :
          v1[1][1] = 1 /\ v2[1][1] = 0
    /\ Cardinality({v[1] : v \in Acceptable(winners)}) >= 3

\* A settings request that one server accepted ends with the status that
\* either server's handler computes from the state before it and the row
\* written.
C37_Step ==
    (reply'.op = "settings" /\ reply'.result = "ok") =>
        \A server \in Servers : status' = settingsStatus(server, status, tournament')

\* C37: the worker's and the legacy server's handlers agree: a request served
\* by one ends with the status the other would have left (the create,
\* callback, start and vote handlers of the two are the same code; the
\* settings handlers are compared here).
C37_ServersAgree == [][C37_Step]_vars

C38_Step ==
    (/\ reply'.op = "callback"
     /\ reply'.role = "challenger"
     /\ reply'.result = "ok"
     /\ Started) =>
        /\ status' = status
        /\ <<tracks, winners, completedAt, bracketRow, tournamentTracks>>'
              = <<tracks, winners, completedAt, bracketRow, tournamentTracks>>
        /\ tournament'
              = [tournament EXCEPT !.challengerUserId = tournament'.challengerUserId]

\* C38: a challenger callback on a tournament that is in_progress or
\* completed changes challengerUserId only: the status, the slot list, the
\* winners map and the other columns stay as they were.
C38_LateChallengerOnlyId == [][C38_Step]_vars

\* A challenger has attached to a bracket that had votes already.
C38_Witness ==
    /\ reply.op = "callback"
    /\ reply.role = "challenger"
    /\ reply.result = "ok"
    /\ Started
    /\ winners # EmptyMap

\* C39: between requests, a bracket state row exists exactly when the
\* tournament's status is in_progress or completed.
C39_RowIffStarted == bracketRow <=> Started

====
